---- MODULE Spec2Model ----
(***************************************************************************)
(* Preference-weighted ranking and combination optimizer of the travel     *)
(* planning backend:                                                       *)
(*   backend/services/scoring.py  normalize_weights                        *)
(*   backend/main.py              generateOptimalItinerary   ("optimize")  *)
(*   backend/main.py              apply_preference_filters_to_activities   *)
(*                                apply_preference_weights_to_hotels       *)
(*                                                            ("rank")     *)
(*                                                                         *)
(* Python floats are modelled as exact rationals <<n, d>> (d > 0, lowest   *)
(* terms).  A Python value is a record [t, v]: t is its dynamic type       *)
(* ("absent" for a key the dict does not hold, "none", "num", "str" for a  *)
(* non-numeric string, "dict" for a nested {amount: v} price object, "iso" *)
(* for a PT#H#M duration string, "isodays" for P#D, "isobad" for a PT      *)
(* string whose hour field is no integer, "bool") and v its payload.  An   *)
(* exception leaving a function is the result field raised = TRUE.         *)
(***************************************************************************)
EXTENDS Integers, Sequences, FiniteSets, TLC

VARIABLES
    op,                  \* the entry point the request is for
    pc,                  \* "call": arguments built, "done": the call returned or raised
    weights,             \* normalize_weights: its argument
    nwResult,            \* normalize_weights: what it returned
    flights,             \* optimize: caller-owned flight list
    hotels,              \* optimize / hotel rank: caller-owned hotel list
    activities,          \* optimize / activity rank: caller-owned activity list
    preferences,         \* optimize / rank: the preferences argument
    userBudget,          \* optimize: the budget ceiling
    trip_duration_days,  \* activity rank: the trip length, None or a number
    optResult,           \* optimize: what it returned
    rankResult,          \* rank: the list it returned, and whether it caught an exception
    default_weights,     \* scoring.py: what the module-level dict DEFAULT_WEIGHTS holds
    scores,              \* calculate_total_score: its scores argument
    totalScore,          \* calculate_total_score: what it returned
    calls,               \* the calls of scoring.py functions made so far in a sequence
    return_date,         \* flight formatter: whether a return date was passed
    departure_date,      \* flight formatter: the day of the departure and the days of its month
    formatted_response   \* flight formatter: what it returned

vars == <<op, pc, weights, nwResult, flights, hotels, activities, preferences,
          userBudget, trip_duration_days, optResult, rankResult, default_weights,
          scores, totalScore, calls, return_date, departure_date,
          formatted_response>>

-----------------------------------------------------------------------------
(* Float arithmetic as exact rationals.                                     *)

Abs(x) == IF x < 0 THEN -x ELSE x

RECURSIVE GCD(_, _)
GCD(a, b) == IF b = 0 THEN a ELSE GCD(b, a % b)

\* n/d in lowest terms with a positive denominator (d # 0)
Rat(n, d) ==
    LET s == IF d < 0 THEN -1 ELSE 1
        g == GCD(Abs(n), Abs(d))
    IN  <<(s * n) \div g, Abs(d) \div g>>

Whole(n) == <<n, 1>>

LCM(a, b) == (a \div GCD(a, b)) * b

RAdd(x, y) ==
    LET l == LCM(x[2], y[2])
    IN  Rat(x[1] * (l \div x[2]) + y[1] * (l \div y[2]), l)

RNeg(x) == <<-x[1], x[2]>>

RSub(x, y) == RAdd(x, RNeg(y))

RMul(x, y) ==
    LET a == Rat(x[1], y[2])
        b == Rat(y[1], x[2])
    IN  <<a[1] * b[1], a[2] * b[2]>>

\* x / y for y # 0
RDiv(x, y) == RMul(x, Rat(y[2], y[1]))

RLt(x, y) ==
    LET l == LCM(x[2], y[2])
    IN  x[1] * (l \div x[2]) < y[1] * (l \div y[2])

RLe(x, y) == ~RLt(y, x)

RMax(x, y) == IF RLt(x, y) THEN y ELSE x

RMin(x, y) == IF RLt(y, x) THEN y ELSE x

Zero == Whole(0)

One == Whole(1)

Half == Rat(1, 2)

RECURSIVE SeqMax(_)
SeqMax(s) ==
    IF Len(s) = 1 THEN s[1] ELSE RMax(s[1], SeqMax(Tail(s)))

RECURSIVE SeqMin(_)
SeqMin(s) ==
    IF Len(s) = 1 THEN s[1] ELSE RMin(s[1], SeqMin(Tail(s)))

RECURSIVE SeqSum(_)
SeqSum(s) ==
    IF s = <<>> THEN Zero ELSE RAdd(s[1], SeqSum(Tail(s)))

-----------------------------------------------------------------------------
(* Python values.                                                           *)

Absent == [t |-> "absent", v |-> Zero]

None == [t |-> "none", v |-> Zero]

Str == [t |-> "str", v |-> Zero]

Num(n, d) == [t |-> "num", v |-> Rat(n, d)]

Dict(n, d) == [t |-> "dict", v |-> Rat(n, d)]

Iso(h, m) == [t |-> "iso", v |-> <<h, m>>]

IsoDays(d) == [t |-> "isodays", v |-> <<d, 0>>]

IsoBad == [t |-> "isobad", v |-> Zero]

\* bool(x)
Truthy(x) ==
    CASE x.t \in {"num", "bool"} -> x.v # Zero
      [] x.t \in {"absent", "none"} -> FALSE
      [] OTHER -> TRUE

\* dict.get(key, default)
Get(x, default) == IF x.t = "absent" THEN default ELSE x

\* float(x): [err, v]
Float(x) ==
    IF x.t = "num" THEN [err |-> FALSE, v |-> x.v] ELSE [err |-> TRUE, v |-> Zero]

-----------------------------------------------------------------------------
(* scoring.py                                                               *)

\* lines 5-9: the dict literal the module binds DEFAULT_WEIGHTS to when it is
\* loaded; what the dict holds later is the variable default_weights
DEFAULT_WEIGHTS ==
    [budget |-> Rat(33, 100), quality |-> Rat(33, 100), convenience |-> Rat(34, 100)]

\* what a call leaves: raised, or a dict; shared tells whether that dict is the
\* module-level dict itself, so that a write to it is a write to DEFAULT_WEIGHTS
Raised ==
    [raised |-> TRUE, shared |-> FALSE, budget |-> Zero, quality |-> Zero,
     convenience |-> Zero]

\* a new dict holding the entries of w
Returned(w) ==
    [raised |-> FALSE, shared |-> FALSE, budget |-> w.budget, quality |-> w.quality,
     convenience |-> w.convenience]

\* `return DEFAULT_WEIGHTS`: the module-level dict itself
Alias(d) ==
    [raised |-> FALSE, shared |-> TRUE, budget |-> d.budget, quality |-> d.quality,
     convenience |-> d.convenience]

\* lines 15, 23: DEFAULT_WEIGHTS.copy()
Copy(d) == Returned(d)

\* a weights argument: None, or a dict holding up to three entries
NoWeights == [t |-> "none", budget |-> Absent, quality |-> Absent, convenience |-> Absent]

WeightsDict(b, q, c) == [t |-> "dict", budget |-> b, quality |-> q, convenience |-> c]

\* `not weights`: None or the empty dict
Falsy(w) ==
    \/ w.t = "none"
    \/ w.budget.t = "absent" /\ w.quality.t = "absent" /\ w.convenience.t = "absent"

\* the normalizer without the max(..., 0.0) of lines 17-19
normalize_weights_unclamped(w) ==
    IF Falsy(w) THEN Copy(default_weights)
    ELSE
      LET b == Float(Get(w.budget, Num(0, 1)))
          q == Float(Get(w.quality, Num(0, 1)))
          c == Float(Get(w.convenience, Num(0, 1)))
          total == RAdd(RAdd(b.v, q.v), c.v)
      IN  IF b.err \/ q.err \/ c.err THEN Raised
          ELSE IF RLe(total, Zero) THEN Copy(default_weights)
          ELSE Returned([budget |-> RDiv(b.v, total), quality |-> RDiv(q.v, total),
                         convenience |-> RDiv(c.v, total)])

\* the normalizer with `total <= 1` for the `total <= 0` of line 22
normalize_weights_below_one(w) ==
    IF Falsy(w) THEN Copy(default_weights)
    ELSE
      LET b == Float(Get(w.budget, Num(0, 1)))
          q == Float(Get(w.quality, Num(0, 1)))
          c == Float(Get(w.convenience, Num(0, 1)))
          budget == RMax(b.v, Zero)
          quality == RMax(q.v, Zero)
          convenience == RMax(c.v, Zero)
          total == RAdd(RAdd(budget, quality), convenience)
      IN  IF b.err \/ q.err \/ c.err THEN Raised
          ELSE IF RLe(total, One) THEN Copy(default_weights)
          ELSE Returned([budget |-> RDiv(budget, total), quality |-> RDiv(quality, total),
                         convenience |-> RDiv(convenience, total)])

normalize_weights(w) ==
    IF Falsy(w) THEN Copy(default_weights)
    ELSE
      LET b == Float(Get(w.budget, Num(0, 1)))
          q == Float(Get(w.quality, Num(0, 1)))
          c == Float(Get(w.convenience, Num(0, 1)))
          budget == RMax(b.v, Zero)
          quality == RMax(q.v, Zero)
          convenience == RMax(c.v, Zero)
          total == RAdd(RAdd(budget, quality), convenience)
      IN  IF b.err \/ q.err \/ c.err THEN Raised
          ELSE IF RLe(total, Zero) THEN Copy(default_weights)
          ELSE Returned([budget |-> RDiv(budget, total), quality |-> RDiv(quality, total),
                         convenience |-> RDiv(convenience, total)])

-----------------------------------------------------------------------------
(* main.py: generateOptimalItinerary                                        *)

Ok(v) == [err |-> FALSE, v |-> v]

Err == [err |-> TRUE, v |-> Zero]

\* lines 1038-1049: the weights optimize applies; [err, budget, quality, convenience]
OptimizeWeights(p) ==
    IF p.t = "none" THEN [err |-> TRUE, budget |-> Zero, quality |-> Zero, convenience |-> Zero]
    ELSE
      LET b == Get(p.budget, Num(33, 100))
          q == Get(p.quality, Num(33, 100))
          c == Get(p.convenience, Num(34, 100))
          total_weight == RAdd(RAdd(b.v, q.v), c.v)
      IN  IF b.t # "num" \/ q.t # "num" \/ c.t # "num"
          THEN [err |-> TRUE, budget |-> Zero, quality |-> Zero, convenience |-> Zero]
          ELSE IF RLt(Zero, total_weight)
          THEN [err |-> FALSE, budget |-> RDiv(b.v, total_weight),
                quality |-> RDiv(q.v, total_weight),
                convenience |-> RDiv(c.v, total_weight)]
          ELSE [err |-> FALSE, budget |-> Rat(1, 3), quality |-> Rat(1, 3),
                convenience |-> Rat(1, 3)]

\* `float(price) if price else 0` after unwrapping a nested price object
PriceValue(x) ==
    LET price == IF x.t = "dict" THEN [t |-> "num", v |-> x.v] ELSE x
    IN  IF Truthy(price) THEN Float(price) ELSE Ok(Zero)

\* hours + minutes / 60.0 of a PT#H#M string
IsoHours(x) == RAdd(Whole(x.v[1]), Rat(x.v[2], 60))

\* lines 1072-1096
FlightDuration(flight) ==
    LET duration_str == Get(flight.duration, Iso(0, 0))
    IN  CASE duration_str.t = "iso" -> Ok(IsoHours(duration_str))
          [] duration_str.t = "isobad" -> Err
          [] OTHER ->
               CASE flight.itineraries.t = "iso" -> Ok(IsoHours(flight.itineraries))
                 [] flight.itineraries.t = "isobad" -> Err
                 [] OTHER -> Ok(Whole(8))

\* `rating = x.get('rating', d); if rating is None: rating = d;
\*  float(rating) if rating else d`
RatingValue(x, default) ==
    LET rating == IF Get(x, default).t = "none" THEN default ELSE Get(x, default)
    IN  IF Truthy(rating) THEN Float(rating) ELSE Ok(default.v)

\* lines 1156-1161
HotelPrice(hotel) ==
    LET ppn == hotel.price_per_night
        price == IF ~Truthy(ppn) THEN Get(hotel.price, Num(0, 1)) ELSE ppn
    IN  PriceValue(price)

\* lines 1170-1171
HotelDistance(hotel) ==
    IF Truthy(hotel.distance) THEN Float(hotel.distance) ELSE Ok(Whole(5))

\* lines 1217-1222
ActivityPrice(activity) == PriceValue(activity.price)

\* lines 1231-1240
ActivityDuration(activity) ==
    LET duration_str == Get(activity.minimumDuration, Get(activity.duration, Iso(2, 0)))
    IN  CASE duration_str.t = "iso" -> Ok(IsoHours(duration_str))
          [] duration_str.t = "isobad" -> Err
          [] duration_str.t = "num" -> Ok(duration_str.v)
          [] OTHER -> Ok(Whole(2))

\* the three extracted metrics of each candidate of a list: price, rating and the
\* convenience metric (duration in hours, distance in km)
FlightMetrics(list) ==
    [i \in 1..Len(list) |->
        [price |-> PriceValue(Get(list[i].price, Num(0, 1))),
         rating |-> RatingValue(list[i].rating, Num(4, 1)),
         conv |-> FlightDuration(list[i])]]

HotelMetrics(list) ==
    [i \in 1..Len(list) |->
        [price |-> HotelPrice(list[i]),
         rating |-> RatingValue(list[i].rating, Num(3, 1)),
         conv |-> HotelDistance(list[i])]]

ActivityMetrics(list) ==
    [i \in 1..Len(list) |->
        [price |-> ActivityPrice(list[i]),
         rating |-> RatingValue(list[i].rating, Num(4, 1)),
         conv |-> ActivityDuration(list[i])]]

MetricsRaise(m) ==
    \E i \in 1..Len(m) : m[i].price.err \/ m[i].rating.err \/ m[i].conv.err

\* budget_score = 1 - (price / max_price) if max_price > 0 else 0.5
MaxScore(value, max_value) ==
    IF RLt(Zero, max_value) THEN RSub(One, RDiv(value, max_value)) ELSE Half

\* quality_score = rating / 5.0
QualityScore(rating) == RDiv(rating, Whole(5))

CategoryScore(w, budget_score, quality_score, convenience_score) ==
    RAdd(RAdd(RMul(w.budget, budget_score), RMul(w.quality, quality_score)),
         RMul(w.convenience, convenience_score))

\* lines 1104-1141, 1173-1202, 1242-1271: the normalized list of one category
Normalize(m, w) ==
    IF Len(m) = 0 THEN <<>>
    ELSE
      LET max_price == SeqMax([i \in 1..Len(m) |-> m[i].price.v])
          max_conv == SeqMax([i \in 1..Len(m) |-> m[i].conv.v])
      IN  [i \in 1..Len(m) |->
             LET budget_score == MaxScore(m[i].price.v, max_price)
                 quality_score == QualityScore(m[i].rating.v)
                 convenience_score == MaxScore(m[i].conv.v, max_conv)
             IN  [dummy |-> FALSE,
                  price |-> m[i].price.v,
                  budget_score |-> budget_score,
                  quality_score |-> quality_score,
                  convenience_score |-> convenience_score,
                  category_score |->
                      CategoryScore(w, budget_score, quality_score, convenience_score)]]

\* lines 1292-1302
DummyHotel ==
    [dummy |-> TRUE, price |-> Zero, budget_score |-> Half, quality_score |-> Rat(6, 10),
     convenience_score |-> Half, category_score |-> Rat(53, 100)]

\* lines 1306-1316
DummyActivity ==
    [dummy |-> TRUE, price |-> Zero, budget_score |-> Half, quality_score |-> Rat(8, 10),
     convenience_score |-> Half, category_score |-> Rat(6, 10)]

\* the filter with an exclusive comparison: a total price equal to the budget is
\* filtered out as well
ExceedsBudgetExclusive(total_price, budget, hotel, activity) ==
    RLe(budget, total_price) /\ ~hotel.dummy /\ ~activity.dummy

\* line 1332: the triple is filtered out
ExceedsBudget(total_price, budget, hotel, activity) ==
    RLt(budget, total_price) /\ ~hotel.dummy /\ ~activity.dummy

\* the comparison of line 1343 made non-strict: a triple that ties with the best
\* one so far replaces it
BetterOrEqual(total_score, best_total_score) == RLe(best_total_score, total_score)

\* line 1343: the triple replaces the best one so far
Better(total_score, best_total_score) == RLt(best_total_score, total_score)

\* lines 1319-1354: the nested loops, flight outermost, as one pass over the triples
\* t = 1 .. |nf| * |nh| * |na| in loop order.  considered records the triples that
\* passed the budget filter.
RECURSIVE Search(_, _, _, _, _, _)
Search(nf, nh, na, budget, t, st) ==
    IF t > Len(nf) * Len(nh) * Len(na) THEN st
    ELSE
      LET i == ((t - 1) \div (Len(nh) * Len(na))) + 1
          j == (((t - 1) \div Len(na)) % Len(nh)) + 1
          k == ((t - 1) % Len(na)) + 1
          total_price == RAdd(RAdd(nf[i].price, nh[j].price), na[k].price)
          total_score ==
              RDiv(RAdd(RAdd(nf[i].category_score, nh[j].category_score),
                        na[k].category_score), Whole(3))
      IN  IF ExceedsBudget(total_price, budget, nh[j], na[k])
          THEN Search(nf, nh, na, budget, t + 1, st)
          ELSE Search(nf, nh, na, budget, t + 1,
                 IF Better(total_score, st.best_total_score)
                 THEN [best |-> <<i, j, k>>, best_total_score |-> total_score,
                       total_price |-> total_price,
                       considered |-> Append(st.considered, <<i, j, k>>)]
                 ELSE [st EXCEPT !.considered = Append(@, <<i, j, k>>)])

Scores(c) ==
    [budget |-> c.budget_score, quality |-> c.quality_score,
     convenience |-> c.convenience_score, total |-> c.category_score]

NoResult ==
    [raised |-> FALSE, ok |-> FALSE, error |-> "", flight |-> 0, hotel |-> 0,
     activity |-> 0, total_price |-> Zero, total_score |-> Zero,
     hotelDummy |-> FALSE, activityDummy |-> FALSE, prices |-> <<>>, scores |-> <<>>,
     considered |-> <<>>, insights |-> <<>>, closing |-> ""]

\* lines 1366-1375: the phrases joined into the insight text
Insights(w) ==
    LET named ==
          (IF RLt(Rat(4, 10), w.budget) THEN <<"excellent value">> ELSE <<>>)
          \o (IF RLt(Rat(4, 10), w.quality) THEN <<"high quality options">> ELSE <<>>)
          \o (IF RLt(Rat(4, 10), w.convenience) THEN <<"minimal travel time">> ELSE <<>>)
    IN  IF named = <<>> THEN <<"balanced combination">> ELSE named

\* lines 1379-1384: the sentence appended to the insight text
Closing(w, total_price, budget) ==
    IF RLt(Rat(4, 10), w.budget) /\ RLt(total_price, RMul(budget, Rat(8, 10)))
    THEN "You're saving significantly"
    ELSE IF RLt(Rat(4, 10), w.quality) THEN "Premium quality selections"
    ELSE IF RLt(Rat(4, 10), w.convenience) THEN "Optimized for convenience"
    ELSE ""

generateOptimalItinerary(fl, ho, ac, prefs, budget) ==
    LET w == OptimizeWeights(prefs)
        fm == FlightMetrics(fl)
        hm == HotelMetrics(ho)
        am == ActivityMetrics(ac)
    IN  IF w.err \/ MetricsRaise(fm) \/ MetricsRaise(hm) \/ MetricsRaise(am)
        THEN [NoResult EXCEPT !.raised = TRUE]
        ELSE
          LET normalized_flights == Normalize(fm, w)
              normalized_hotels ==
                  IF Len(hm) = 0 THEN <<DummyHotel>> ELSE Normalize(hm, w)
              normalized_activities ==
                  IF Len(am) = 0 THEN <<DummyActivity>> ELSE Normalize(am, w)
              st == Search(normalized_flights, normalized_hotels, normalized_activities,
                           budget, 1,
                           [best |-> <<>>, best_total_score |-> Whole(-1),
                            total_price |-> Zero, considered |-> <<>>])
          IN  IF Len(normalized_flights) = 0
              THEN [NoResult EXCEPT !.error = "No flights provided"]
              ELSE IF st.best = <<>>
              THEN [NoResult EXCEPT
                      !.error = "No valid combination found within budget",
                      !.considered = st.considered]
              ELSE
                LET flight == normalized_flights[st.best[1]]
                    hotel == normalized_hotels[st.best[2]]
                    activity == normalized_activities[st.best[3]]
                IN  [raised |-> FALSE, ok |-> TRUE, error |-> "",
                     flight |-> st.best[1], hotel |-> st.best[2],
                     activity |-> st.best[3],
                     total_price |-> st.total_price,
                     total_score |-> st.best_total_score,
                     hotelDummy |-> hotel.dummy, activityDummy |-> activity.dummy,
                     prices |-> <<flight.price, hotel.price, activity.price>>,
                     scores |-> <<Scores(flight), Scores(hotel), Scores(activity)>>,
                     considered |-> st.considered,
                     insights |-> Insights(w),
                     closing |-> Closing(w, st.total_price, budget)]

-----------------------------------------------------------------------------
(* round() and ** of the rankers.                                           *)

\* the integer part and the remainder of x * 10^k, digit by digit
RECURSIVE Shift(_, _, _, _)
Shift(q, r, d, k) ==
    IF k = 0 THEN <<q, r>> ELSE Shift(q * 10 + ((r * 10) \div d), (r * 10) % d, d, k - 1)

\* round(x, k): to the nearest multiple of 10^-k, a tie to the even one
Round(x, k) ==
    LET s == Shift(x[1] \div x[2], x[1] % x[2], x[2], k)
        q == s[1]
        r == s[2]
        up == 2 * r > x[2] \/ (2 * r = x[2] /\ q % 2 = 1)
        scale == CASE k = 2 -> 100 [] k = 4 -> 10000 [] OTHER -> 1
    IN  Rat(IF up THEN q + 1 ELSE q, scale)

\* (i / 100) ** 1.5 in units of 10^-4, i = 0 .. 300 (index i + 1)
Pow15Table ==
    <<
      0, 10, 28, 52, 80, 112, 147, 185, 226, 270, 316, 365,
      416, 469, 524, 581, 640, 701, 764, 828, 894, 962, 1032, 1103,
      1176, 1250, 1326, 1403, 1482, 1562, 1643, 1726, 1810, 1896, 1983, 2071,
      2160, 2251, 2342, 2436, 2530, 2625, 2722, 2820, 2919, 3019, 3120, 3222,
      3326, 3430, 3536, 3642, 3750, 3858, 3968, 4079, 4191, 4303, 4417, 4532,
      4648, 4764, 4882, 5000, 5120, 5240, 5362, 5484, 5607, 5732, 5857, 5983,
      6109, 6237, 6366, 6495, 6626, 6757, 6889, 7022, 7155, 7290, 7425, 7562,
      7699, 7837, 7975, 8115, 8255, 8396, 8538, 8681, 8824, 8969, 9114, 9259,
      9406, 9553, 9702, 9850, 10000, 10150, 10301, 10453, 10606, 10759, 10913, 11068,
      11224, 11380, 11537, 11695, 11853, 12012, 12172, 12332, 12494, 12655, 12818, 12981,
      13145, 13310, 13475, 13641, 13808, 13975, 14143, 14312, 14482, 14652, 14822, 14994,
      15166, 15338, 15512, 15686, 15860, 16035, 16211, 16388, 16565, 16743, 16921, 17100,
      17280, 17460, 17641, 17823, 18005, 18188, 18371, 18555, 18740, 18925, 19111, 19297,
      19484, 19672, 19860, 20049, 20239, 20429, 20619, 20810, 21002, 21195, 21388, 21581,
      21775, 21970, 22165, 22361, 22558, 22755, 22952, 23150, 23349, 23548, 23748, 23949,
      24150, 24351, 24553, 24756, 24959, 25163, 25367, 25572, 25777, 25983, 26190, 26397,
      26604, 26812, 27021, 27230, 27440, 27650, 27861, 28072, 28284, 28497, 28710, 28923,
      29137, 29352, 29567, 29782, 29998, 30215, 30432, 30650, 30868, 31086, 31306, 31525,
      31745, 31966, 32187, 32409, 32631, 32854, 33077, 33301, 33525, 33750, 33975, 34201,
      34427, 34654, 34881, 35109, 35337, 35566, 35795, 36025, 36255, 36486, 36717, 36949,
      37181, 37413, 37646, 37880, 38114, 38349, 38584, 38819, 39055, 39292, 39528, 39766,
      40004, 40242, 40481, 40720, 40960, 41200, 41441, 41682, 41924, 42166, 42408, 42651,
      42895, 43139, 43383, 43628, 43873, 44119, 44366, 44612, 44859, 45107, 45355, 45604,
      45853, 46102, 46352, 46602, 46853, 47104, 47356, 47608, 47861, 48114, 48367, 48621,
      48875, 49130, 49385, 49641, 49897, 50154, 50410, 50668, 50926, 51184, 51443, 51702,
      51962 >>

\* (i / 100) ** 1.3 in units of 10^-4, i = 0 .. 100
Pow13Table ==
    <<
      0, 25, 62, 105, 152, 204, 258, 315, 375, 437, 501, 567,
      635, 705, 776, 849, 923, 999, 1076, 1154, 1234, 1315, 1397, 1480,
      1564, 1649, 1736, 1823, 1911, 2000, 2091, 2182, 2274, 2366, 2460, 2554,
      2650, 2746, 2843, 2940, 3039, 3138, 3238, 3338, 3439, 3541, 3644, 3747,
      3851, 3956, 4061, 4167, 4274, 4381, 4489, 4597, 4706, 4815, 4926, 5036,
      5148, 5259, 5372, 5485, 5598, 5712, 5826, 5942, 6057, 6173, 6290, 6407,
      6524, 6642, 6761, 6880, 6999, 7119, 7240, 7361, 7482, 7604, 7726, 7849,
      7972, 8096, 8220, 8344, 8469, 8594, 8720, 8846, 8973, 9100, 9227, 9355,
      9483, 9612, 9741, 9870, 10000 >>

\* (i / 100) ** 1.2 in units of 10^-4, i = 0 .. 100
Pow12Table ==
    <<
      0, 40, 91, 149, 210, 275, 342, 411, 483, 556, 631, 707,
      785, 864, 945, 1026, 1109, 1193, 1277, 1363, 1450, 1537, 1625, 1714,
      1804, 1895, 1986, 2078, 2171, 2264, 2358, 2453, 2548, 2644, 2740, 2837,
      2935, 3033, 3131, 3231, 3330, 3430, 3531, 3632, 3734, 3836, 3938, 4041,
      4145, 4248, 4353, 4457, 4563, 4668, 4774, 4880, 4987, 5094, 5201, 5309,
      5417, 5526, 5635, 5744, 5854, 5963, 6074, 6184, 6295, 6406, 6518, 6630,
      6742, 6855, 6968, 7081, 7194, 7308, 7422, 7536, 7651, 7766, 7881, 7996,
      8112, 8228, 8344, 8461, 8578, 8695, 8812, 8930, 9048, 9166, 9284, 9403,
      9522, 9641, 9760, 9880, 10000 >>

\* x ** e for x >= 0 from the table of e: linear between the grid points, to 10^-4;
\* the last grid value beyond the table
Pow(x, tbl) ==
    LET i == (x[1] * 100) \div x[2]
        frac == RSub(RMul(x, Whole(100)), Whole(i))
    IN  IF i >= Len(tbl) - 1 THEN Rat(tbl[Len(tbl)], 10000)
        ELSE RDiv(Round(RAdd(Whole(tbl[i + 1]),
                             RMul(Whole(tbl[i + 2] - tbl[i + 1]), frac)), 0),
                  Whole(10000))

Pow15(x) == Pow(x, Pow15Table)

Pow13(x) == Pow(x, Pow13Table)

Pow12(x) == Pow(x, Pow12Table)

\* sorted(s) of a list of numbers
RECURSIVE InsertAsc(_, _)
InsertAsc(s, x) ==
    IF s = <<>> THEN <<x>>
    ELSE IF RLt(x, s[1]) THEN <<x>> \o s
    ELSE <<s[1]>> \o InsertAsc(Tail(s), x)

RECURSIVE Sorted(_)
Sorted(s) ==
    IF s = <<>> THEN <<>> ELSE InsertAsc(Sorted(SubSeq(s, 1, Len(s) - 1)), s[Len(s)])

-----------------------------------------------------------------------------
(* main.py: apply_preference_filters_to_activities                          *)

True == [t |-> "bool", v |-> One]

False == [t |-> "bool", v |-> Zero]

Bool(b) == IF b THEN True ELSE False

\* lines 1606-1620: a float, or None (err)
SafeFloat(x) == IF x.t \in {"num", "dict"} THEN Ok(x.v) ELSE Err

\* lines 1718-1722: `amount or total` of a price object, else the price itself
RankPrice(activity) ==
    CASE activity.price.t = "dict" ->
           IF activity.price.v # Zero THEN Ok(activity.price.v) ELSE Err
      [] activity.price.t = "num" -> Ok(activity.price.v)
      [] OTHER -> Err

\* activity.get('minimumDuration') or activity.get('duration')
DurationArg(activity) ==
    IF Truthy(activity.minimumDuration) THEN activity.minimumDuration
    ELSE activity.duration

\* lines 1622-1654: [st, v] with st "ok", "none" (returns None) or "raise" (int()
\* of a malformed hour or minute field)
ExtractDurationHours(x) ==
    CASE x.t = "num" -> [st |-> "ok", v |-> x.v]
      [] x.t = "isodays" -> [st |-> "ok", v |-> Whole(x.v[1] * 24)]
      [] x.t = "iso" -> [st |-> "ok", v |-> IsoHours(x)]
      [] x.t = "isobad" -> [st |-> "raise", v |-> Zero]
      [] OTHER -> [st |-> "none", v |-> Zero]

DurationHours(activity) == ExtractDurationHours(DurationArg(activity))

\* lines 1664-1692: the weights the activity ranker applies
RankWeights(p) ==
    IF Falsy(p)
    THEN [err |-> FALSE, budget |-> Rat(1, 3), quality |-> Rat(1, 3),
          convenience |-> Rat(1, 3)]
    ELSE
      LET raw_budget == Float(Get(p.budget, Num(33, 100)))
          raw_quality == Float(Get(p.quality, Num(33, 100)))
          raw_convenience == Float(Get(p.convenience, Num(34, 100)))
          total_weight == RAdd(RAdd(raw_budget.v, raw_quality.v), raw_convenience.v)
      IN  IF raw_budget.err \/ raw_quality.err \/ raw_convenience.err
          THEN [err |-> TRUE, budget |-> Zero, quality |-> Zero, convenience |-> Zero]
          ELSE IF RLe(total_weight, Zero)
          THEN [err |-> FALSE, budget |-> Rat(1, 3), quality |-> Rat(1, 3),
                convenience |-> Rat(1, 3)]
          ELSE [err |-> FALSE, budget |-> RDiv(raw_budget.v, total_weight),
                quality |-> RDiv(raw_quality.v, total_weight),
                convenience |-> RDiv(raw_convenience.v, total_weight)]

\* the first activity whose duration cannot be parsed, Len + 1 when there is none
FirstBadDuration(acts) ==
    IF \E i \in 1..Len(acts) : DurationHours(acts[i]).st = "raise"
    THEN CHOOSE i \in 1..Len(acts) :
           /\ DurationHours(acts[i]).st = "raise"
           /\ \A j \in 1..(i - 1) : DurationHours(acts[j]).st # "raise"
    ELSE Len(acts) + 1

\* lines 1656-1661, 1700
IsLongTour(activity, trip) ==
    LET hours == DurationHours(activity)
    IN  hours.st = "ok" /\ RLt(trip.v, RDiv(hours.v, Whole(24)))

\* lines 1694-1708, A: the loop stops at the first duration that raises
TripLengthFilter(acts, trip) ==
    IF trip.t = "none"
    THEN [raised |-> FALSE,
          acts |-> [i \in 1..Len(acts) |-> [acts[i] EXCEPT !.long_tour = False]]]
    ELSE [raised |-> FirstBadDuration(acts) <= Len(acts),
          acts |-> [i \in 1..Len(acts) |->
                      IF i < FirstBadDuration(acts)
                      THEN [acts[i] EXCEPT !.long_tour = Bool(IsLongTour(acts[i], trip))]
                      ELSE acts[i]]]

\* the values of a list of optional numbers that are present and >= 0
RECURSIVE Collected(_)
Collected(s) ==
    IF s = <<>> THEN <<>>
    ELSE IF ~s[1].err /\ RLe(Zero, s[1].v) THEN <<s[1].v>> \o Collected(Tail(s))
    ELSE Collected(Tail(s))

\* lines 1716-1735
CollectedPrices(acts) == Collected([i \in 1..Len(acts) |-> RankPrice(acts[i])])

CollectedDurations(acts) ==
    Collected([i \in 1..Len(acts) |->
                 IF DurationHours(acts[i]).st = "ok" THEN Ok(DurationHours(acts[i]).v)
                 ELSE Err])

\* lines 1782-1808, B: reads the raw budget entry
BudgetFilter(acts, p) ==
    IF Falsy(p) THEN acts
    ELSE
      LET budget_pref == Float(Get(p.budget, Num(33, 100))).v
          prices == CollectedPrices(acts)
          threshold == RMul(RDiv(SeqSum(prices), Whole(Len(prices))), Rat(16, 10))
      IN  [i \in 1..Len(acts) |->
             [acts[i] EXCEPT !.too_expensive_for_budget =
                 IF RLe(Rat(6, 10), budget_pref) /\ prices # <<>>
                 THEN Bool(~RankPrice(acts[i]).err /\ RLt(threshold, RankPrice(acts[i]).v))
                 ELSE False]]

\* lines 1810-1827, C: reads the raw quality entry
QualityFilter(acts, p) ==
    IF Falsy(p) THEN acts
    ELSE
      LET quality_pref == Float(Get(p.quality, Num(33, 100))).v
      IN  [i \in 1..Len(acts) |->
             [acts[i] EXCEPT !.low_quality_for_preference =
                 IF RLe(Rat(6, 10), quality_pref)
                 THEN Bool(~SafeFloat(acts[i].rating).err
                           /\ RLt(SafeFloat(acts[i].rating).v, Rat(35, 10)))
                 ELSE False]]

Clamp01(x) == RMax(Zero, RMin(One, x))

\* lines 1761-1768
inverse_normalize(value, min_val, max_val) ==
    IF max_val = min_val THEN Half
    ELSE RSub(One, Clamp01(RDiv(RSub(value, min_val), RSub(max_val, min_val))))

\* lines 1770-1776
forward_normalize(value, min_val, max_val) ==
    IF max_val = min_val THEN Half
    ELSE Clamp01(RDiv(RSub(value, min_val), RSub(max_val, min_val)))

\* sorted_x[int(len(sorted_x) * 0.75)] if len(sorted_x) > 3 else sorted_x[-1]
P75(s) == IF Len(s) > 3 THEN Sorted(s)[((3 * Len(s)) \div 4) + 1] ELSE Sorted(s)[Len(s)]

\* sorted_x[len(sorted_x) // 2] if len(sorted_x) > 1 else sorted_x[0]
P50(s) == IF Len(s) > 1 THEN Sorted(s)[(Len(s) \div 2) + 1] ELSE Sorted(s)[1]

\* sorted_x[int(len(sorted_x) * 0.25)] if len(sorted_x) > 3 else sorted_x[0]
P25(s) == IF Len(s) > 3 THEN Sorted(s)[(Len(s) \div 4) + 1] ELSE Sorted(s)[1]

\* lines 1849-1855
base_budget_norm(price, prices) ==
    IF ~price.err /\ prices # <<>> /\ RLt(SeqMin(prices), SeqMax(prices))
    THEN inverse_normalize(price.v, SeqMin(prices), SeqMax(prices))
    ELSE Half

\* lines 1861-1866
base_convenience_norm(duration_hours, durations) ==
    IF durations # <<>> /\ RLt(SeqMin(durations), SeqMax(durations))
    THEN inverse_normalize(duration_hours, SeqMin(durations), SeqMax(durations))
    ELSE Half

\* lines 1876-1912: the budget axis after amplification.  Every ** argument
\* here lies in [0, 1].
BudgetNorm(base, price, prices, budget_weight) ==
    LET extreme == RLe(Rat(7, 10), budget_weight)
        strong == ~extreme /\ RLe(Rat(6, 10), budget_weight)
        boost_factor == RAdd(One, RMul(Rat(8, 10),
                          RDiv(RSub(budget_weight, Rat(7, 10)), Rat(3, 10))))
        boosted ==
          IF ~RLt(Zero, base) THEN base
          ELSE IF extreme THEN RMin(One, RMul(Pow15(base), boost_factor))
          ELSE RMin(One, Pow13(base))
        pivot == IF extreme THEN P75(prices) ELSE P50(prices)
        max_price == SeqMax(prices)
        price_ratio == RDiv(RSub(price.v, pivot),
                            RAdd(RSub(max_price, pivot), Rat(1, 100)))
        penalty == IF extreme THEN RMin(Rat(9, 10), RMul(Rat(7, 10), Pow15(price_ratio)))
                   ELSE RMin(Rat(7, 10), RMul(Rat(5, 10), Pow12(price_ratio)))
    IN  IF ~(extreme \/ strong) THEN base
        ELSE IF ~price.err /\ prices # <<>> /\ RLt(pivot, price.v) /\ RLt(pivot, max_price)
        THEN RMax(Zero, RSub(boosted, penalty))
        ELSE boosted

\* the strong tier of the quality axis applied to every weight, whatever its
\* size
QualityNormNoFloor(base, rating, quality_weight) ==
    IF RLe(Rat(45, 10), rating)
    THEN RMin(One, RAdd(base, RMin(Rat(2, 10),
                   RMul(Rat(15, 100), RDiv(RSub(rating, Rat(45, 10)), Half)))))
    ELSE IF RLt(rating, Whole(4))
    THEN RMax(Zero, RSub(base, RMin(Rat(4, 10),
                    RMul(Rat(3, 10), RDiv(RSub(Whole(4), rating), Whole(4))))))
    ELSE base

\* lines 1915-1936: the quality axis after amplification.  An argument of **
\* above 3 meets the cap of min() like 3 does.
QualityNorm(base, rating, quality_weight) ==
    LET extreme == RLe(Rat(7, 10), quality_weight)
        strong == ~extreme /\ RLe(Rat(6, 10), quality_weight)
        above == RDiv(RSub(rating, Rat(45, 10)), Half)
        below == RDiv(RSub(Whole(4), rating), Whole(4))
        boost == IF extreme THEN RMin(Rat(3, 10), RMul(Rat(2, 10), Pow15(above)))
                 ELSE RMin(Rat(2, 10), RMul(Rat(15, 100), above))
        penalty == IF extreme THEN RMin(Rat(6, 10), RMul(Rat(4, 10), Pow15(below)))
                   ELSE RMin(Rat(4, 10), RMul(Rat(3, 10), below))
    IN  IF ~(extreme \/ strong) THEN base
        ELSE IF RLe(Rat(45, 10), rating) THEN RMin(One, RAdd(base, boost))
        ELSE IF RLt(rating, Whole(4)) THEN RMax(Zero, RSub(base, penalty))
        ELSE base

\* lines 1939-1973: the convenience axis after amplification
ConvenienceNorm(base, duration_hours, durations, convenience_weight) ==
    LET extreme == RLe(Rat(7, 10), convenience_weight)
        strong == ~extreme /\ RLe(Rat(6, 10), convenience_weight)
        low == IF extreme THEN P25(durations) ELSE P50(durations)
        p75_duration == P75(durations)
        max_duration == SeqMax(durations)
        boost_factor == RAdd(One, RMul(Rat(6, 10),
                          RDiv(RSub(convenience_weight, Rat(7, 10)), Rat(3, 10))))
        short_ratio == RDiv(RSub(low, duration_hours), RAdd(low, Rat(1, 10)))
        long_ratio == RDiv(RSub(duration_hours, p75_duration),
                           RAdd(RSub(max_duration, p75_duration), Rat(1, 10)))
        boost == IF extreme
                 THEN RMin(Rat(4, 10), RMul(RMul(Rat(3, 10), Pow15(short_ratio)), boost_factor))
                 ELSE RMin(Rat(3, 10), RMul(Rat(25, 100), short_ratio))
        penalty == IF extreme THEN RMin(Rat(7, 10), RMul(Rat(5, 10), Pow15(long_ratio)))
                   ELSE RMin(Rat(5, 10), RMul(Rat(4, 10), long_ratio))
    IN  IF ~(extreme \/ strong) \/ durations = <<>> THEN base
        ELSE IF RLe(duration_hours, low) THEN RMin(One, RAdd(base, boost))
        ELSE IF RLt(p75_duration, duration_hours) /\ RLt(p75_duration, max_duration)
        THEN RMax(Zero, RSub(base, penalty))
        ELSE base

\* lines 1830-1987: the scores of one activity
ActivityScores(activity, acts, p, w) ==
    LET price == RankPrice(activity)
        rating == IF SafeFloat(activity.rating).err THEN Rat(35, 10)
                  ELSE SafeFloat(activity.rating).v
        duration_hours == IF DurationHours(activity).st = "ok" THEN DurationHours(activity).v
                          ELSE Whole(2)
        prices == CollectedPrices(acts)
        durations == CollectedDurations(acts)
        base_budget == base_budget_norm(price, prices)
        base_quality == forward_normalize(rating, Zero, Whole(5))
        base_convenience == base_convenience_norm(duration_hours, durations)
        budget_norm == IF Falsy(p) THEN base_budget
                       ELSE BudgetNorm(base_budget, price, prices, w.budget)
        quality_norm == IF Falsy(p) THEN base_quality
                        ELSE QualityNorm(base_quality, rating, w.quality)
        convenience_norm == IF Falsy(p) THEN base_convenience
                            ELSE ConvenienceNorm(base_convenience, duration_hours,
                                                 durations, w.convenience)
        total_score == RAdd(RAdd(RMul(budget_norm, w.budget), RMul(quality_norm, w.quality)),
                            RMul(convenience_norm, w.convenience))
    IN  [budget_score |-> Round(RMul(budget_norm, Whole(100)), 2),
         quality_score |-> Round(RMul(quality_norm, Whole(100)), 2),
         convenience_score |-> Round(RMul(convenience_norm, Whole(100)), 2),
         total_score |-> Round(total_score, 4)]

\* lines 1990-1996: activity.get('name')[:50] raises unless the name is a string
NameRaises(activity) == activity.name.t # "str"

FirstBadName(acts) ==
    IF \E i \in 1..Len(acts) : NameRaises(acts[i])
    THEN CHOOSE i \in 1..Len(acts) :
           NameRaises(acts[i]) /\ \A j \in 1..(i - 1) : ~NameRaises(acts[j])
    ELSE Len(acts) + 1

\* lines 1984-1987
StoreScores(activity, s) ==
    [activity EXCEPT !.budget_score = [t |-> "num", v |-> s.budget_score],
                     !.quality_score = [t |-> "num", v |-> s.quality_score],
                     !.convenience_score = [t |-> "num", v |-> s.convenience_score],
                     !.total_score = [t |-> "num", v |-> s.total_score]]

\* the activities up to position last scored, the others as they were
ScoredUpTo(acts, last, p, w) ==
    [i \in 1..Len(acts) |->
       IF i <= last THEN StoreScores(acts[i], ActivityScores(acts[i], acts, p, w))
       ELSE acts[i]]

\* lines 1829-1996, D: the loop stores the scores of an activity and then logs
\* it, so the activity whose name raises is the last one scored
ScoreActivities(acts, p, w) ==
    [raised |-> FirstBadName(acts) <= Len(acts),
     acts |-> ScoredUpTo(acts, FirstBadName(acts), p, w)]

\* an unstable sort: x joins a descending list ahead of the entries whose key
\* equals its own
InsertBeforeTies(sorted, x) ==
    LET k == Cardinality({i \in 1..Len(sorted) : RLt(x.key, sorted[i].key)})
    IN  SubSeq(sorted, 1, k) \o <<x>> \o SubSeq(sorted, k + 1, Len(sorted))

\* list.sort(key=..., reverse=True): x joins a descending list behind the
\* entries whose key is at least its own
InsertDesc(sorted, x) ==
    LET k == Cardinality({i \in 1..Len(sorted) : RLe(x.key, sorted[i].key)})
    IN  SubSeq(sorted, 1, k) \o <<x>> \o SubSeq(sorted, k + 1, Len(sorted))

RECURSIVE SortDesc(_)
SortDesc(s) ==
    IF s = <<>> THEN <<>>
    ELSE InsertDesc(SortDesc(SubSeq(s, 1, Len(s) - 1)), s[Len(s)])

Items(s) == [i \in 1..Len(s) |-> s[i].item]

\* a.get('long_tour', False)
IsFlaggedLongTour(activity) == Truthy(Get(activity.long_tour, False))

\* a sort that returns the regular activities only and drops the long tours
SortRegularOnly(acts) ==
    LET Keyed(a) == [key |-> Get(a.total_score, Num(0, 1)).v, item |-> a]
        regular_activities == SelectSeq(acts, LAMBDA a : ~IsFlaggedLongTour(a))
    IN  Items(SortDesc([i \in 1..Len(regular_activities) |-> Keyed(regular_activities[i])]))

\* lines 2025-2035, E
SortActivities(acts) ==
    LET Keyed(a) == [key |-> Get(a.total_score, Num(0, 1)).v, item |-> a]
        regular_activities == SelectSeq(acts, LAMBDA a : ~IsFlaggedLongTour(a))
        long_tour_activities == SelectSeq(acts, LAMBDA a : IsFlaggedLongTour(a))
    IN  Items(SortDesc([i \in 1..Len(regular_activities) |-> Keyed(regular_activities[i])]))
        \o Items(SortDesc([i \in 1..Len(long_tour_activities) |->
                             Keyed(long_tour_activities[i])]))

\* what a rank call leaves: the caller's list after the call, the list returned,
\* and whether the body was left by an exception (which the function swallows)
Ranked(list, returned, caught) == [list |-> list, returned |-> returned, caught |-> caught]

\* lines 2025-2035, 2093-2096: after D
SortOrCatch(d) ==
    IF d.raised THEN Ranked(d.acts, d.acts, TRUE)
    ELSE Ranked(d.acts, SortActivities(d.acts), FALSE)

\* lines 1710-2096: after A; a duration that raises leaves the body in A or,
\* without a trip length, in the metric collection
FilterScoreSort(a, p, w) ==
    IF a.raised \/ FirstBadDuration(a.acts) <= Len(a.acts)
    THEN Ranked(a.acts, a.acts, TRUE)
    ELSE SortOrCatch(ScoreActivities(QualityFilter(BudgetFilter(a.acts, p), p), p, w))

\* lines 1694-2096: after the weights
RankWithWeights(acts, p, trip, w) ==
    IF w.err THEN Ranked(acts, acts, TRUE)
    ELSE FilterScoreSort(TripLengthFilter(acts, trip), p, w)

\* lines 1576-2096
apply_preference_filters_to_activities(acts, p, trip) ==
    IF acts = <<>> THEN Ranked(acts, acts, FALSE)
    ELSE RankWithWeights(acts, p, trip, RankWeights(p))

-----------------------------------------------------------------------------
(* main.py: apply_preference_weights_to_hotels                              *)

\* lines 1467-1478
HotelSafeFloat(x) == IF x.t = "num" THEN Ok(x.v) ELSE Err

\* hotel.get('price_per_night') or hotel.get('price')
HotelRankPrice(hotel) ==
    HotelSafeFloat(IF Truthy(hotel.price_per_night) THEN hotel.price_per_night
                   ELSE hotel.price)

\* the values of a list of optional numbers that are present
RECURSIVE Present(_)
Present(s) ==
    IF s = <<>> THEN <<>>
    ELSE IF ~s[1].err THEN <<s[1].v>> \o Present(Tail(s))
    ELSE Present(Tail(s))

\* lines 1490-1495, 1502, 1505
HotelInverse(value, values) ==
    IF value.err \/ values = <<>> THEN Half
    ELSE inverse_normalize(value.v, SeqMin(values), SeqMax(values))

\* lines 1497-1518
HotelScores(hotel, hs, w) ==
    LET price_values == Present([i \in 1..Len(hs) |-> HotelRankPrice(hs[i])])
        distance_values == Present([i \in 1..Len(hs) |-> HotelSafeFloat(hs[i].distance)])
        rating == HotelSafeFloat(hotel.rating)
        price_score == HotelInverse(HotelRankPrice(hotel), price_values)
        rating_score == IF rating.err THEN Half
                        ELSE RDiv(RMin(RMax(rating.v, Zero), Whole(5)), Whole(5))
        distance_score == HotelInverse(HotelSafeFloat(hotel.distance), distance_values)
        total_score == RAdd(RAdd(RMul(w.budget, price_score), RMul(w.quality, rating_score)),
                            RMul(w.convenience, distance_score))
    IN  [hotel EXCEPT
           !._preference_score = [t |-> "num", v |-> Round(total_score, 4)],
           !._preference_components =
               [t |-> "components", price |-> Round(price_score, 4),
                rating |-> Round(rating_score, 4), distance |-> Round(distance_score, 4)]]

\* lines 1448-1529: the sort is in place, so the caller's list is the list returned
apply_preference_weights_to_hotels(hs, p) ==
    IF hs = <<>> \/ Falsy(p) THEN Ranked(hs, hs, FALSE)
    ELSE
      LET w == RankWeights(p)
          scored == [i \in 1..Len(hs) |-> HotelScores(hs[i], hs, w)]
          sorted == Items(SortDesc([i \in 1..Len(scored) |->
                       [key |-> Get(scored[i]._preference_score, Num(0, 1)).v,
                        item |-> scored[i]]]))
      IN  IF w.err THEN Ranked(hs, hs, TRUE) ELSE Ranked(sorted, sorted, FALSE)

-----------------------------------------------------------------------------
(* The requests the model draws its inputs from.                            *)

\* the candidates of one request, over the three lists
MaxCandidates == 4

WeightEntries == {Absent, None, Str, Num(-1, 1), Num(0, 1), Num(1, 1), Num(2, 1)}

WeightInputs ==
    {NoWeights} \cup
    {WeightsDict(b, q, c) : b \in WeightEntries, q \in WeightEntries, c \in WeightEntries}

Flight(price, duration, itineraries, rating) ==
    [price |-> price, duration |-> duration, itineraries |-> itineraries,
     rating |-> rating]

Hotel(price_per_night, price, rating, distance) ==
    [price_per_night |-> price_per_night, price |-> price, rating |-> rating,
     distance |-> distance]

Activity(name, price, rating, minimumDuration, duration) ==
    [name |-> name, price |-> price, rating |-> rating,
     minimumDuration |-> minimumDuration, duration |-> duration]

FlightPool ==
    {Flight(Num(300, 1), Iso(5, 0), Absent, Absent),
     Flight(Num(500, 1), Iso(8, 0), Absent, Absent),
     Flight(Num(200, 1), Iso(6, 0), Absent, Num(3, 1)),
     Flight(Dict(300, 1), None, Iso(2, 30), Num(6, 1)),
     Flight(Str, Iso(5, 0), Absent, Absent)}

HotelPool ==
    {Hotel(Num(100, 1), Num(300, 1), Num(4, 1), Num(2, 1)),
     Hotel(Absent, Num(200, 1), Num(5, 1), Absent),
     Hotel(Absent, Str, Num(4, 1), Num(2, 1))}

ActivityPool ==
    {Activity(Str, Num(50, 1), Absent, Absent, Iso(2, 0)),
     Activity(Str, Dict(150, 1), Num(3, 1), Iso(4, 0), Iso(1, 0)),
     Activity(Str, Num(50, 1), Num(4, 1), IsoBad, Absent)}

OptimizePrefs ==
    {NoWeights,
     WeightsDict(Absent, Absent, Absent),
     WeightsDict(Num(1, 1), Num(0, 1), Num(0, 1)),
     WeightsDict(Num(0, 1), Num(0, 1), Num(0, 1)),
     WeightsDict(Num(3, 1), Num(-1, 1), Num(-1, 1)),
     WeightsDict(None, Num(1, 1), Num(1, 1))}

Budgets == {400, 450, 1000}

\* an activity as the caller hands it to rank: id is its position in the input
RankActivity(id, a) ==
    [id |-> id, name |-> a.name, price |-> a.price, rating |-> a.rating,
     minimumDuration |-> a.minimumDuration, duration |-> a.duration,
     long_tour |-> Absent, too_expensive_for_budget |-> Absent,
     low_quality_for_preference |-> Absent, budget_score |-> Absent,
     quality_score |-> Absent, convenience_score |-> Absent, total_score |-> Absent]

RankHotel(id, h) ==
    [id |-> id, price_per_night |-> h.price_per_night, price |-> h.price,
     rating |-> h.rating, distance |-> h.distance,
     _preference_score |-> Absent, _preference_components |-> Absent]

RankActivityPool ==
    {Activity(Str, Num(50, 1), Num(45, 10), Absent, Iso(2, 0)),
     Activity(Str, Dict(150, 1), Num(3, 1), IsoDays(2), Absent),
     Activity(Absent, Num(100, 1), Num(4, 1), Absent, Num(3, 1)),
     Activity(Str, Str, Num(6, 1), IsoBad, Absent),
     Activity(Str, Num(-10, 1), Absent, Absent, Absent)}

RankPrefs ==
    {NoWeights,
     WeightsDict(Num(1, 1), Num(1, 1), Num(1, 1)),
     WeightsDict(Num(8, 1), Num(1, 1), Num(1, 1)),
     WeightsDict(Num(6, 10), Num(2, 10), Num(2, 10)),
     WeightsDict(Num(1, 1), Num(8, 1), Num(1, 1)),
     WeightsDict(Num(2, 10), Num(6, 10), Num(2, 10)),
     WeightsDict(Num(1, 1), Num(1, 1), Num(8, 1)),
     WeightsDict(Num(2, 10), Num(2, 10), Num(6, 10)),
     WeightsDict(Num(-1, 1), Num(3, 1), Num(-1, 1)),
     WeightsDict(Str, Num(1, 1), Num(1, 1))}

TripLengths == {None, Num(1, 1)}

NoRank == Ranked(<<>>, <<>>, FALSE)

NoCall ==
    [raised |-> FALSE, shared |-> FALSE, budget |-> Zero, quality |-> Zero,
     convenience |-> Zero]

NoScores == [budget |-> Absent, quality |-> Absent, convenience |-> Absent]

NoTotal == [raised |-> FALSE, v |-> Zero]

\* no scoring.py sequence is under way: the module dict is as loaded
NoScoring ==
    /\ default_weights = DEFAULT_WEIGHTS
    /\ scores = NoScores
    /\ totalScore = NoTotal
    /\ calls = 0

\* lines 38-52, 207: the lists of the response, or the exception raised
Response(raised, outboundFlights, returnFlights) ==
    [raised |-> raised, outboundFlights |-> outboundFlights, returnFlights |-> returnFlights]

NoResponse == Response(FALSE, <<>>, <<>>)

\* no formatter call is under way
NoFormatting ==
    /\ return_date = FALSE
    /\ departure_date = <<0, 0>>
    /\ formatted_response = NoResponse

-----------------------------------------------------------------------------
(* normalize_weights called on one argument.                                *)

InitWeights ==
    /\ op = "normalize_weights"
    /\ pc = "call"
    /\ weights \in WeightInputs
    /\ nwResult = NoCall
    /\ flights = <<>>
    /\ hotels = <<>>
    /\ activities = <<>>
    /\ preferences = NoWeights
    /\ userBudget = 0
    /\ trip_duration_days = None
    /\ optResult = NoResult
    /\ rankResult = NoRank
    /\ NoScoring
    /\ NoFormatting

NormalizeWeights ==
    /\ op = "normalize_weights"
    /\ pc = "call"
    /\ nwResult' = normalize_weights(weights)
    /\ pc' = "done"
    /\ UNCHANGED <<op, weights, flights, hotels, activities, preferences, userBudget,
                   trip_duration_days, optResult, rankResult,
                   default_weights, scores, totalScore, calls,
                   return_date, departure_date,
                   formatted_response>>

SpecWeights == InitWeights /\ [][NormalizeWeights]_vars

\* the dict a call returned, as the argument of a further call
AsWeights(r) ==
    WeightsDict([t |-> "num", v |-> r.budget], [t |-> "num", v |-> r.quality],
                [t |-> "num", v |-> r.convenience])

\* normalize_weights called on the dict its first call returned
NormalizeAgain ==
    /\ op = "normalize_weights"
    /\ pc = "done"
    /\ ~nwResult.raised
    /\ weights' = AsWeights(nwResult)
    /\ nwResult' = normalize_weights(weights')
    /\ pc' = "again"
    /\ UNCHANGED <<op, flights, hotels, activities, preferences, userBudget,
                   trip_duration_days, optResult, rankResult,
                   default_weights, scores, totalScore, calls,
                   return_date, departure_date,
                   formatted_response>>

SpecRenormalize == InitWeights /\ [][NormalizeWeights \/ NormalizeAgain]_vars

-----------------------------------------------------------------------------
(* generateOptimalItinerary called on one request.                          *)

InitOptimize ==
    /\ op = "optimize"
    /\ pc = "call"
    /\ weights = NoWeights
    /\ nwResult = NoCall
    /\ \E nf \in 0..MaxCandidates, nh \in 0..MaxCandidates, na \in 0..MaxCandidates :
         /\ nf + nh + na <= MaxCandidates
         /\ flights \in [1..nf -> FlightPool]
         /\ hotels \in [1..nh -> HotelPool]
         /\ activities \in [1..na -> ActivityPool]
    /\ preferences \in OptimizePrefs
    /\ userBudget \in Budgets
    /\ trip_duration_days = None
    /\ optResult = NoResult
    /\ rankResult = NoRank
    /\ NoScoring
    /\ NoFormatting

Optimize ==
    /\ op = "optimize"
    /\ pc = "call"
    /\ optResult' = generateOptimalItinerary(flights, hotels, activities, preferences,
                                             Whole(userBudget))
    /\ pc' = "done"
    /\ UNCHANGED <<op, weights, nwResult, flights, hotels, activities, preferences,
                   userBudget, trip_duration_days, rankResult,
                   default_weights, scores, totalScore, calls,
                   return_date, departure_date,
                   formatted_response>>

SpecOptimize == InitOptimize /\ [][Optimize]_vars

-----------------------------------------------------------------------------
(* The rankers called on one list.                                          *)

\* the lists of at most MaxCandidates records of a pool, each record holding its
\* position as id
RankActivityLists ==
    UNION {{[i \in 1..n |-> RankActivity(i, list[i])] : list \in [1..n -> RankActivityPool]} :
             n \in 0..MaxCandidates}

RankHotelLists ==
    UNION {{[i \in 1..n |-> RankHotel(i, list[i])] : list \in [1..n -> HotelPool]} :
             n \in 0..MaxCandidates}

InitRankActivities ==
    /\ op = "rank_activities"
    /\ pc = "call"
    /\ weights = NoWeights
    /\ nwResult = NoCall
    /\ flights = <<>>
    /\ hotels = <<>>
    /\ activities \in RankActivityLists
    /\ preferences \in RankPrefs
    /\ userBudget = 0
    /\ trip_duration_days \in TripLengths
    /\ optResult = NoResult
    /\ rankResult = NoRank
    /\ NoScoring
    /\ NoFormatting

InitRankHotels ==
    /\ op = "rank_hotels"
    /\ pc = "call"
    /\ weights = NoWeights
    /\ nwResult = NoCall
    /\ flights = <<>>
    /\ hotels \in RankHotelLists
    /\ activities = <<>>
    /\ preferences \in RankPrefs
    /\ userBudget = 0
    /\ trip_duration_days = None
    /\ optResult = NoResult
    /\ rankResult = NoRank
    /\ NoScoring
    /\ NoFormatting

InitRank == InitRankActivities \/ InitRankHotels

\* the candidates and preferences of two calls in a row on the same records: the
\* second call receives the dicts the first call wrote its flags and scores into
RerankPool ==
    {Activity(Str, Num(50, 1), Num(45, 10), Absent, Absent),
     Activity(Str, Num(400, 1), Num(3, 1), Absent, Absent),
     Activity(Str, Num(100, 1), Num(4, 1), Absent, Absent)}

RerankLists ==
    UNION {{[i \in 1..n |-> RankActivity(i, list[i])] : list \in [1..n -> RerankPool]} :
             n \in 0..MaxCandidates}

FirstPrefs ==
    {WeightsDict(Num(8, 10), Num(1, 10), Num(1, 10)),
     WeightsDict(Num(1, 10), Num(8, 10), Num(1, 10)),
     WeightsDict(Num(3, 10), Num(3, 10), Num(4, 10))}

SecondPrefs ==
    {NoWeights,
     WeightsDict(Absent, Absent, Absent),
     WeightsDict(Num(3, 10), Num(3, 10), Num(4, 10)),
     WeightsDict(Num(8, 10), Num(1, 10), Num(1, 10))}

InitRerank ==
    /\ op = "rerank_activities"
    /\ pc = "call"
    /\ weights = NoWeights
    /\ nwResult = NoCall
    /\ flights = <<>>
    /\ hotels = <<>>
    /\ activities \in RerankLists
    /\ preferences \in FirstPrefs
    /\ userBudget = 0
    /\ trip_duration_days = None
    /\ optResult = NoResult
    /\ rankResult = NoRank
    /\ NoScoring
    /\ NoFormatting

\* one call of the activity ranker: the only call of a request, or the first or
\* the second of two calls on the same records, the second with preferences
\* of its own
RankActivities ==
    /\ op \in {"rank_activities", "rerank_activities"}
    /\ pc \in (IF op = "rank_activities" THEN {"call"} ELSE {"call", "ranked"})
    /\ preferences' \in (IF pc = "ranked" THEN SecondPrefs ELSE {preferences})
    /\ rankResult' = apply_preference_filters_to_activities(activities, preferences',
                                                            trip_duration_days)
    /\ activities' = rankResult'.list
    /\ pc' = IF op = "rerank_activities" /\ pc = "call" THEN "ranked" ELSE "done"
    /\ UNCHANGED <<op, weights, nwResult, flights, hotels, userBudget,
                   trip_duration_days, optResult,
                   default_weights, scores, totalScore, calls,
                   return_date, departure_date,
                   formatted_response>>

RankHotels ==
    /\ op = "rank_hotels"
    /\ pc = "call"
    /\ rankResult' = apply_preference_weights_to_hotels(hotels, preferences)
    /\ hotels' = rankResult'.list
    /\ pc' = "done"
    /\ UNCHANGED <<op, weights, nwResult, flights, activities, preferences, userBudget,
                   trip_duration_days, optResult,
                   default_weights, scores, totalScore, calls,
                   return_date, departure_date,
                   formatted_response>>

SpecRank == InitRank /\ [][RankActivities \/ RankHotels]_vars

SpecRerank == InitRerank /\ [][RankActivities]_vars

-----------------------------------------------------------------------------
(* scoring.py: calculate_total_score, and a sequence of calls of the        *)
(* functions of scoring.py by a caller that keeps the dict normalize_weights *)
(* returned and may write to it.                                             *)

\* the calls of one sequence
MaxCalls == 2

\* a score passed on as it is, without the clamp of line 34
unclamped_score(value) ==
    IF Float(value).err THEN Err ELSE Ok(Float(value).v)

\* lines 32-34: max(0.0, min(float(value), 100.0)); [err, v]
clamp_score(value) ==
    IF Float(value).err THEN Err
    ELSE Ok(RMax(Zero, RMin(Float(value).v, Whole(100))))

\* lines 37-51: [raised, v]
calculate_total_score(s, w) ==
    LET normalized_weights == normalize_weights(w)
        budget_score == clamp_score(Get(s.budget, Num(0, 1)))
        quality_score == clamp_score(Get(s.quality, Num(0, 1)))
        convenience_score == clamp_score(Get(s.convenience, Num(0, 1)))
        total == RAdd(RAdd(RMul(budget_score.v, normalized_weights.budget),
                           RMul(quality_score.v, normalized_weights.quality)),
                      RMul(convenience_score.v, normalized_weights.convenience))
    IN  IF normalized_weights.raised \/ budget_score.err \/ quality_score.err
             \/ convenience_score.err
        THEN [raised |-> TRUE, v |-> Zero]
        ELSE [raised |-> FALSE, v |-> Round(total, 2)]

ScoresDict(b, q, c) == [budget |-> b, quality |-> q, convenience |-> c]

ScoreInputs ==
    {ScoresDict(Absent, Absent, Absent),
     ScoresDict(Num(50, 1), Num(50, 1), Num(50, 1)),
     ScoresDict(Num(100, 1), Absent, Absent),
     ScoresDict(Num(100, 1), Num(100, 1), Num(50, 1)),
     ScoresDict(Num(50, 1), Num(100, 1), Num(150, 1)),
     ScoresDict(Num(-10, 1), Num(50, 1), Num(150, 1)),
     ScoresDict(Absent, Num(150, 1), Num(-10, 1)),
     ScoresDict(Num(150, 1), Num(150, 1), Num(150, 1)),
     ScoresDict(Num(-10, 1), Num(-10, 1), Num(-10, 1)),
     ScoresDict(Num(1, 3), Num(50, 1), Num(0, 1)),
     ScoresDict(Str, Num(50, 1), Num(50, 1)),
     ScoresDict(Num(50, 1), None, Absent)}

ScoringWeights ==
    {NoWeights,
     WeightsDict(Absent, Absent, Absent),
     WeightsDict(Num(1, 1), Num(1, 1), Num(1, 1)),
     WeightsDict(Num(-1, 1), Num(2, 1), Absent),
     WeightsDict(Num(0, 1), Num(0, 1), Num(-1, 1)),
     WeightsDict(Str, Num(1, 1), Num(1, 1))}

\* what a caller writes into an entry of the dict it was handed
Written == {Zero, One}

InitScoring ==
    /\ op = "scoring"
    /\ pc = "idle"
    /\ weights = NoWeights
    /\ nwResult = NoCall
    /\ flights = <<>>
    /\ hotels = <<>>
    /\ activities = <<>>
    /\ preferences = NoWeights
    /\ userBudget = 0
    /\ trip_duration_days = None
    /\ optResult = NoResult
    /\ rankResult = NoRank
    /\ NoScoring
    /\ NoFormatting

\* a call of normalize_weights; the caller keeps the dict returned
CallNormalizeWeights ==
    /\ op = "scoring"
    /\ calls < MaxCalls
    /\ weights' \in ScoringWeights
    /\ nwResult' = normalize_weights(weights')
    /\ calls' = calls + 1
    /\ pc' = "normalized"
    /\ UNCHANGED <<op, flights, hotels, activities, preferences, userBudget,
                   trip_duration_days, optResult, rankResult, default_weights, scores,
                   totalScore,
                   return_date, departure_date,
                   formatted_response>>

\* a call of calculate_total_score; the dict normalize_weights returns to it is
\* local to the call
CalculateTotalScore ==
    /\ op = "scoring"
    /\ calls < MaxCalls
    /\ weights' \in ScoringWeights
    /\ scores' \in ScoreInputs
    /\ totalScore' = calculate_total_score(scores', weights')
    /\ calls' = calls + 1
    /\ pc' = "scored"
    /\ UNCHANGED <<op, nwResult, flights, hotels, activities, preferences, userBudget,
                   trip_duration_days, optResult, rankResult, default_weights,
                   return_date, departure_date,
                   formatted_response>>

\* the caller stores v under key in the dict normalize_weights handed it; when
\* that dict is the module-level one, DEFAULT_WEIGHTS holds v from then on
WriteEntry(d, key, v) ==
    CASE key = "budget" -> [d EXCEPT !.budget = v]
      [] key = "quality" -> [d EXCEPT !.quality = v]
      [] key = "convenience" -> [d EXCEPT !.convenience = v]

CallerModifies ==
    /\ op = "scoring"
    /\ pc = "normalized"
    /\ ~nwResult.raised
    /\ \E key \in {"budget", "quality", "convenience"}, v \in Written :
         /\ nwResult' = WriteEntry(nwResult, key, v)
         /\ default_weights' = IF nwResult.shared THEN WriteEntry(default_weights, key, v)
                               ELSE default_weights
    /\ pc' = "modified"
    /\ UNCHANGED <<op, weights, flights, hotels, activities, preferences, userBudget,
                   trip_duration_days, optResult, rankResult, scores, totalScore, calls,
                   return_date, departure_date,
                   formatted_response>>

SpecScoring ==
    InitScoring /\ [][CallNormalizeWeights \/ CalculateTotalScore \/ CallerModifies]_vars

-----------------------------------------------------------------------------
(* services/flight_formatter.py: format_flight_for_dashboard                *)

MaxOffers == 3

\* a flight offer of flight_data["flights"]
Offer(id, price, itineraries) == [id |-> id, price |-> price, itineraries |-> itineraries]

\* an itinerary: flightNumber stands for the airline, number and times of its
\* segments, segments for how many segments it has
Itinerary(flightNumber, segments, duration) ==
    [flightNumber |-> flightNumber, segments |-> segments, duration |-> duration]

\* a duration string with capital unit letters and no PT prefix, "8H30M"
Bare(h, m) == [t |-> "bare", v |-> <<h, m>>]

\* lines 357-371, _format_duration: "N/A" for an empty one, "8h 30m" for PT8H30M,
\* any other string as it is
FormatDuration(duration_str) ==
    CASE ~Truthy(duration_str) -> [t |-> "na", v |-> <<0, 0>>]
      [] duration_str.t = "iso" -> [t |-> "hm", v |-> duration_str.v]
      [] OTHER -> duration_str

\* lines 442-455, _parse_duration_to_hours: the pattern asks for capital H and
\* M, so that "8h 30m" and "N/A" yield 0.0
ParseDurationToHours(duration_str) ==
    IF duration_str.t = "bare" THEN IsoHours(duration_str) ELSE Zero

\* lines 211-316, _format_single_flight: [none, flight]
FormatSingleFlight(flight_offer, itinerary, itinerary_index, price) ==
    LET result == [id |-> <<flight_offer.id, itinerary_index>>,
                   flightNumber |-> itinerary.flightNumber,
                   duration |-> FormatDuration(itinerary.duration),
                   price |-> price,
                   stops |-> itinerary.segments - 1,
                   isOptimal |-> FALSE,
                   preferenceScore |-> Absent]
    IN  [none |-> \/ itinerary.segments = 0
                  \/ ~Truthy(itinerary.flightNumber)
                  \/ RLe(price, Zero),
         flight |-> result]

\* lines 77-83, 101-107
FlightKey(flight) == <<flight.flightNumber, flight.duration>>

Seen(list, flight) == \E i \in 1..Len(list) : FlightKey(list[i]) = FlightKey(flight)

\* lines 59-118: the offers one after the other; an offer whose price is not a
\* number is skipped by the except clause
RECURSIVE ProcessOffers(_, _, _, _)
ProcessOffers(offers, return_date_given, i, st) ==
    IF i > Len(offers) THEN st
    ELSE
      LET flight == offers[i]
          price == Float(Get(flight.price, Num(0, 1)))
          itineraries == flight.itineraries
          outbound_flight == FormatSingleFlight(flight, itineraries[1], 0, price.v)
          return_flight == FormatSingleFlight(flight, itineraries[2], 1, price.v)
          outboundFlights ==
              IF Len(itineraries) > 0 /\ ~outbound_flight.none
                 /\ ~Seen(st.outboundFlights, outbound_flight.flight)
              THEN Append(st.outboundFlights, outbound_flight.flight)
              ELSE st.outboundFlights
          returnFlights ==
              IF Len(itineraries) > 1 /\ return_date_given /\ ~return_flight.none
                 /\ ~Seen(st.returnFlights, return_flight.flight)
              THEN Append(st.returnFlights, return_flight.flight)
              ELSE st.returnFlights
      IN  ProcessOffers(offers, return_date_given, i + 1,
            IF price.err THEN st
            ELSE [outboundFlights |-> outboundFlights, returnFlights |-> returnFlights])

\* lines 477-479: a weight that multiplies a float
FormatterWeights(p) ==
    LET b == Get(p.budget, Num(33, 100))
        q == Get(p.quality, Num(33, 100))
        c == Get(p.convenience, Num(34, 100))
    IN  [err |-> b.t # "num" \/ q.t # "num" \/ c.t # "num",
         budget |-> b.v, quality |-> q.v, convenience |-> c.v]

\* lines 457-520, _calculate_preference_score
CalculatePreferenceScore(flight, w, min_price, max_price, min_duration, max_duration) ==
    LET normalized_price_score ==
            IF RLt(min_price, max_price)
            THEN RDiv(RSub(max_price, flight.price), RSub(max_price, min_price))
            ELSE Half
        quality_score ==
            IF flight.stops = 0 THEN One
            ELSE IF flight.stops = 1 THEN Rat(7, 10)
            ELSE Rat(4, 10)
        duration_hours == ParseDurationToHours(flight.duration)
        normalized_convenience_score ==
            IF RLt(min_duration, max_duration)
            THEN RDiv(RSub(max_duration, duration_hours), RSub(max_duration, min_duration))
            ELSE Half
    IN  RAdd(RAdd(RMul(w.budget, normalized_price_score), RMul(w.quality, quality_score)),
             RMul(w.convenience, normalized_convenience_score))

\* lines 143-156: preferenceScore stored on every flight of a list
WithPreferenceScores(list, w, all_flights) ==
    LET prices == [i \in 1..Len(all_flights) |-> all_flights[i].price]
        durations_hours ==
            [i \in 1..Len(all_flights) |-> ParseDurationToHours(all_flights[i].duration)]
    IN  [i \in 1..Len(list) |->
           [list[i] EXCEPT !.preferenceScore =
              [t |-> "num",
               v |-> CalculatePreferenceScore(list[i], w, SeqMin(prices), SeqMax(prices),
                                              SeqMin(durations_hours),
                                              SeqMax(durations_hours))]]]

\* list.sort(key=...): x joins an ascending list behind the entries whose key
\* is at most its own
InsertAscending(sorted, x) ==
    LET k == Cardinality({i \in 1..Len(sorted) : RLe(sorted[i].key, x.key)})
    IN  SubSeq(sorted, 1, k) \o <<x>> \o SubSeq(sorted, k + 1, Len(sorted))

RECURSIVE SortAscending(_)
SortAscending(s) ==
    IF s = <<>> THEN <<>>
    ELSE InsertAscending(SortAscending(SubSeq(s, 1, Len(s) - 1)), s[Len(s)])

\* lines 159-160: sort(key=lambda x: x.get('preferenceScore', 0), reverse=True)
SortByPreferenceScore(list) ==
    Items(SortDesc([i \in 1..Len(list) |->
                      [key |-> Get(list[i].preferenceScore, Num(0, 1)).v,
                       item |-> list[i]]]))

\* lines 166-167, 629: sort(key=lambda x: x["price"])
SortByPrice(list) ==
    Items(SortAscending([i \in 1..Len(list) |-> [key |-> list[i].price, item |-> list[i]]]))

\* best deals marked on the list in the order it came in
MarkInPlace(flights_) ==
    [i \in 1..Len(flights_) |->
       [flights_[i] EXCEPT !.isOptimal = i <= 3 \/ (i <= 5 /\ flights_[i].stops = 0)]]

\* lines 622-638, _mark_best_deals: the list is sorted by price in place, then
\* the three cheapest and the direct flights among the five cheapest are
\* marked
MarkBestDeals(flights_) == MarkInPlace(SortByPrice(flights_))

\* lines 183-200: a row whose airline, number, times and duration are all
\* placeholders
IsPlaceholderFlight(flight) ==
    ~Truthy(flight.flightNumber) /\ flight.duration.t = "na"

RECURSIVE WithoutPlaceholders(_)
WithoutPlaceholders(list) ==
    IF list = <<>> THEN <<>>
    ELSE IF IsPlaceholderFlight(list[1]) THEN WithoutPlaceholders(Tail(list))
    ELSE <<list[1]>> \o WithoutPlaceholders(Tail(list))

\* lines 522-562, _generate_price_trend_data: base_date.replace(day=day + i) for
\* i = -3 .. 3 raises when the day leaves the month
PriceTrendRaises(date) == date[1] - 3 < 1 \/ date[1] + 3 > date[2]

\* lines 12-207; the route and priceData entries of the response are not
\* carried
format_flight_for_dashboard(offers, date, return_date_given, user_preferences) ==
    LET st == ProcessOffers(offers, return_date_given, 1,
                            [outboundFlights |-> <<>>, returnFlights |-> <<>>])
        all_flights == st.outboundFlights \o st.returnFlights
        w == FormatterWeights(user_preferences)
        by_preference == ~Falsy(user_preferences) /\ all_flights # <<>>
        outboundFlights ==
            IF by_preference
            THEN SortByPreferenceScore(WithPreferenceScores(st.outboundFlights, w, all_flights))
            ELSE SortByPrice(st.outboundFlights)
        returnFlights ==
            IF by_preference
            THEN SortByPreferenceScore(WithPreferenceScores(st.returnFlights, w, all_flights))
            ELSE SortByPrice(st.returnFlights)
    IN  IF PriceTrendRaises(date) \/ (by_preference /\ w.err) THEN Response(TRUE, <<>>, <<>>)
        ELSE Response(FALSE, WithoutPlaceholders(MarkBestDeals(outboundFlights)),
                      WithoutPlaceholders(MarkBestDeals(returnFlights)))

OfferPool ==
    {Offer(1, Num(300, 1), <<Itinerary(Str, 1, Iso(5, 0)), Itinerary(Str, 1, Bare(5, 0))>>),
     Offer(2, Num(200, 1), <<Itinerary(Str, 2, Iso(8, 30)), Itinerary(Str, 2, Bare(8, 30))>>),
     Offer(3, Num(100, 1), <<Itinerary(Str, 3, Bare(12, 0)), Itinerary(Absent, 3, Iso(12, 0))>>),
     Offer(4, Str, <<Itinerary(Str, 1, Iso(5, 0))>>)}

OfferLists == UNION {[1..n -> OfferPool] : n \in 0..MaxOffers}

\* <<day of the month, days of the month>> of departure_date
DepartureDates == {<<1, 31>>, <<15, 30>>, <<28, 31>>, <<29, 30>>}

FormatterPrefs ==
    {NoWeights,
     WeightsDict(Absent, Absent, Absent),
     WeightsDict(Num(8, 10), Num(1, 10), Num(1, 10)),
     WeightsDict(Num(1, 10), Num(8, 10), Num(1, 10)),
     WeightsDict(Num(1, 10), Absent, Num(8, 10)),
     WeightsDict(None, Num(1, 1), Num(1, 1))}

InitFormat ==
    /\ op = "format_flights"
    /\ pc = "call"
    /\ weights = NoWeights
    /\ nwResult = NoCall
    /\ flights \in OfferLists
    /\ hotels = <<>>
    /\ activities = <<>>
    /\ preferences \in FormatterPrefs
    /\ userBudget = 0
    /\ trip_duration_days = None
    /\ optResult = NoResult
    /\ rankResult = NoRank
    /\ NoScoring
    /\ return_date \in BOOLEAN
    /\ departure_date \in DepartureDates
    /\ formatted_response = NoResponse

FormatFlights ==
    /\ op = "format_flights"
    /\ pc = "call"
    /\ formatted_response' = format_flight_for_dashboard(flights, departure_date, return_date,
                                                          preferences)
    /\ pc' = "done"
    /\ UNCHANGED <<op, weights, nwResult, flights, hotels, activities, preferences,
                   userBudget, trip_duration_days, optResult, rankResult,
                   default_weights, scores, totalScore, calls, return_date,
                   departure_date>>

SpecFormat == InitFormat /\ [][FormatFlights]_vars

-----------------------------------------------------------------------------
(* Any request.                                                             *)

Init ==
    InitWeights \/ InitOptimize \/ InitRank \/ InitRerank \/ InitScoring \/ InitFormat

Next ==
    \/ NormalizeWeights
    \/ NormalizeAgain
    \/ Optimize
    \/ RankActivities
    \/ RankHotels
    \/ CallNormalizeWeights
    \/ CalculateTotalScore
    \/ CallerModifies
    \/ FormatFlights

Spec == Init /\ [][Next]_vars

-----------------------------------------------------------------------------
(* Properties of optimize.                                                  *)

OptimizeDone == op = "optimize" /\ pc = "done"

Budget == Whole(userBudget)

Range(s) == {s[i] : i \in 1..Len(s)}

\* the prices of a category after placeholder substitution
PricesOrPlaceholder(m) ==
    IF Len(m) = 0 THEN <<Zero>> ELSE [i \in 1..Len(m) |-> m[i].price.v]

TriplePrice(i, j, k) ==
    RAdd(RAdd(PricesOrPlaceholder(FlightMetrics(flights))[i],
              PricesOrPlaceholder(HotelMetrics(hotels))[j]),
         PricesOrPlaceholder(ActivityMetrics(activities))[k])

Triples ==
    {<<i, j, k>> : i \in 1..Len(flights),
                   j \in 1..Len(PricesOrPlaceholder(HotelMetrics(hotels))),
                   k \in 1..Len(PricesOrPlaceholder(ActivityMetrics(activities)))}

FittingTriples == {t \in Triples : RLe(TriplePrice(t[1], t[2], t[3]), Budget)}

\* C1: a successful result's total_price is within the budget unless the hotel and
\* the activity of the winning triple are both placeholders
C1_TotalPriceWithinBudget ==
    (OptimizeDone /\ optResult.ok) =>
        \/ RLe(optResult.total_price, Budget)
        \/ optResult.hotelDummy /\ optResult.activityDummy

\* C3: with an empty flights list optimize returns the structured failure and does
\* not raise, whatever the other arguments hold
C3_EmptyFlightsReturnsFailure ==
    (OptimizeDone /\ flights = <<>>) =>
        ~optResult.raised /\ ~optResult.ok /\ optResult.error = "No flights provided"

\* C4: with flights, a call that returns reports the no-feasible-combination failure
\* exactly when every triple exceeds the budget, and succeeds otherwise
C4_NoFeasibleIffAllExceed ==
    (OptimizeDone /\ flights # <<>> /\ ~optResult.raised) =>
        /\ optResult.error # "No flights provided"
        /\ (optResult.error = "No valid combination found within budget")
               <=> (FittingTriples = {})
        /\ optResult.ok <=> (FittingTriples # {})

\* the total score of a triple as optimize computes it: the mean of the three
\* category scores
TripleScore(t) ==
    LET w == OptimizeWeights(preferences)
        nf == Normalize(FlightMetrics(flights), w)
        nh == IF hotels = <<>> THEN <<DummyHotel>> ELSE Normalize(HotelMetrics(hotels), w)
        na == IF activities = <<>> THEN <<DummyActivity>>
              ELSE Normalize(ActivityMetrics(activities), w)
    IN  RDiv(RAdd(RAdd(nf[t[1]].category_score, nh[t[2]].category_score),
                  na[t[3]].category_score), Whole(3))

\* nested search order: flight outermost, activity innermost
Before(s, t) ==
    \/ s[1] < t[1]
    \/ s[1] = t[1] /\ s[2] < t[2]
    \/ s[1] = t[1] /\ s[2] = t[2] /\ s[3] < t[3]

Winner == <<optResult.flight, optResult.hotel, optResult.activity>>

\* C5: the returned triple fits the budget, no fitting triple has a higher total
\* score, and no fitting triple with the same score comes earlier in search order
C5_BestFittingTripleFirst ==
    (OptimizeDone /\ optResult.ok) =>
        /\ Winner \in FittingTriples
        /\ \A t \in FittingTriples :
             /\ RLe(TripleScore(t), TripleScore(Winner))
             /\ TripleScore(t) = TripleScore(Winner) => ~Before(t, Winner)

FlightFitsAlone ==
    \E i \in 1..Len(flights) :
        LET price == FlightMetrics(flights)[i].price
        IN  ~price.err /\ RLe(price.v, Budget)

\* C6: an empty hotels or activities list is replaced by one placeholder of price
\* 0, and the call succeeds, marking the category, when a flight fits the budget
\* alone
C6_PlaceholderSuccess ==
    (OptimizeDone /\ (hotels = <<>> \/ activities = <<>>) /\ FlightFitsAlone) =>
        /\ optResult.ok
        /\ hotels = <<>> =>
             optResult.hotelDummy /\ optResult.hotel = 1 /\ optResult.prices[2] = Zero
        /\ activities = <<>> =>
             optResult.activityDummy /\ optResult.activity = 1
             /\ optResult.prices[3] = Zero

\* C7: the budget comparison is inclusive: of the triples of real candidates, the
\* search skips exactly those whose total price is greater than the budget, and
\* the returned triple is one it did not skip
C7_InclusiveBudget ==
    (OptimizeDone /\ ~optResult.raised /\ flights # <<>>) =>
        /\ \A i \in 1..Len(flights), j \in 1..Len(hotels), k \in 1..Len(activities) :
             (<<i, j, k>> \in Range(optResult.considered))
                 <=> RLe(TriplePrice(i, j, k), Budget)
        /\ optResult.ok => Winner \in Range(optResult.considered)

\* C7 witness: a triple of real candidates whose total price equals the budget
\* is returned
C7_Witness ==
    /\ OptimizeDone
    /\ optResult.ok
    /\ ~optResult.hotelDummy
    /\ ~optResult.activityDummy
    /\ optResult.total_price = Budget

InUnit(x) == RLe(Zero, x) /\ RLe(x, One)

InPercent(x) == x.t = "num" => RLe(Zero, x.v) /\ RLe(x.v, Whole(100))

\* C10: every budget, quality and convenience score and every total score that
\* optimize and the activity ranker compute lies within its scale: 0..1 for the
\* scores of optimize and the total_score of rank, 0..100 for the axis scores of
\* rank
C10_ScoresInRange ==
    /\ (OptimizeDone /\ optResult.ok) =>
          /\ InUnit(optResult.total_score)
          /\ \A c \in 1..3 :
               /\ InUnit(optResult.scores[c].budget)
               /\ InUnit(optResult.scores[c].quality)
               /\ InUnit(optResult.scores[c].convenience)
               /\ InUnit(optResult.scores[c].total)
    /\ (op = "rank_activities" /\ pc = "done") =>
          \A i \in 1..Len(activities) :
            /\ InPercent(activities[i].budget_score)
            /\ InPercent(activities[i].quality_score)
            /\ InPercent(activities[i].convenience_score)
            /\ activities[i].total_score.t = "num" => InUnit(activities[i].total_score.v)

-----------------------------------------------------------------------------
(* Properties of normalize_weights.                                         *)

\* C2: for every weights argument normalize_weights returns, without raising, three
\* components >= 0 that sum to 1
C2_NormalizedDistribution ==
    (op = "normalize_weights" /\ pc = "done") =>
        /\ ~nwResult.raised
        /\ RLe(Zero, nwResult.budget)
        /\ RLe(Zero, nwResult.quality)
        /\ RLe(Zero, nwResult.convenience)
        /\ RAdd(RAdd(nwResult.budget, nwResult.quality), nwResult.convenience) = One

-----------------------------------------------------------------------------
(* Properties of rank.                                                      *)

RankActivitiesDone == op = "rank_activities" /\ pc = "done"

RankHotelsDone == op = "rank_hotels" /\ pc = "done"

\* C8: the list the activity ranker returns never has a long_tour-flagged
\* activity at an earlier position than an activity that is not flagged,
\* whatever fields the activities miss or carry malformed.
C8_LongTourLast ==
    RankActivitiesDone =>
      \A i, j \in 1..Len(rankResult.returned) :
        i < j => ~(/\ IsFlaggedLongTour(rankResult.returned[i])
                   /\ ~IsFlaggedLongTour(rankResult.returned[j]))

\* C9: both rankers sort stably: two records of the returned list with equal
\* score (total_score and long_tour status for activities, _preference_score
\* for hotels) stand in the order they had in the input.
C9_StableSort ==
    /\ RankActivitiesDone =>
         \A i, j \in 1..Len(rankResult.returned) :
           (/\ i < j
            /\ rankResult.returned[i].total_score = rankResult.returned[j].total_score
            /\ IsFlaggedLongTour(rankResult.returned[i])
                 = IsFlaggedLongTour(rankResult.returned[j]))
           => rankResult.returned[i].id < rankResult.returned[j].id
    /\ RankHotelsDone =>
         \A i, j \in 1..Len(rankResult.returned) :
           (/\ i < j
            /\ rankResult.returned[i]._preference_score
                 = rankResult.returned[j]._preference_score)
           => rankResult.returned[i].id < rankResult.returned[j].id

\* the call sorted, and the list returned is not in input order
Reordered ==
    /\ ~rankResult.caught
    /\ \E i \in 1..Len(rankResult.returned) : rankResult.returned[i].id # i

\* C9 witness: the activity ranker returns a sorted list that holds two
\* activities of equal total_score and equal long_tour status
C9_Witness ==
    /\ RankActivitiesDone
    /\ Reordered
    /\ \E i, j \in 1..Len(rankResult.returned) :
         /\ i < j
         /\ rankResult.returned[i].total_score.t = "num"
         /\ rankResult.returned[i].total_score = rankResult.returned[j].total_score
         /\ IsFlaggedLongTour(rankResult.returned[i])
              = IsFlaggedLongTour(rankResult.returned[j])

\* the same for the hotel ranker
C9_WitnessHotels ==
    /\ RankHotelsDone
    /\ Reordered
    /\ \E i, j \in 1..Len(rankResult.returned) :
         /\ i < j
         /\ rankResult.returned[i]._preference_score.t = "num"
         /\ rankResult.returned[i]._preference_score
              = rankResult.returned[j]._preference_score

-----------------------------------------------------------------------------
(* Properties of a category of one candidate.                               *)

NeutralPercent(x) == x = [t |-> "num", v |-> Whole(50)]

\* C11: a category of exactly one candidate gets the neutral score on every
\* axis and as its total: 0.5 on the three components and the score of the
\* hotel ranker, 50 on the three axes and 0.5 as total_score of the activity
\* ranker, 0.5 on the axes and the category score of the one hotel optimize
\* was given.
C11_SingleCandidateNeutral ==
    /\ (RankHotelsDone /\ Len(hotels) = 1 /\ hotels[1]._preference_score.t = "num") =>
          /\ hotels[1]._preference_components.price = Half
          /\ hotels[1]._preference_components.rating = Half
          /\ hotels[1]._preference_components.distance = Half
          /\ hotels[1]._preference_score.v = Half
    /\ (RankActivitiesDone /\ Len(activities) = 1 /\ activities[1].total_score.t = "num") =>
          /\ NeutralPercent(activities[1].budget_score)
          /\ NeutralPercent(activities[1].quality_score)
          /\ NeutralPercent(activities[1].convenience_score)
          /\ activities[1].total_score.v = Half
    /\ (OptimizeDone /\ optResult.ok /\ Len(hotels) = 1) =>
          /\ optResult.scores[2].budget = Half
          /\ optResult.scores[2].quality = Half
          /\ optResult.scores[2].convenience = Half
          /\ optResult.scores[2].total = Half

-----------------------------------------------------------------------------
(* Properties of malformed input.                                           *)

\* no candidate of the optimize request holds a field the normalizers raise on
OptimizeCandidatesParse ==
    /\ ~MetricsRaise(FlightMetrics(flights))
    /\ ~MetricsRaise(HotelMetrics(hotels))
    /\ ~MetricsRaise(ActivityMetrics(activities))

\* no activity of the rank request holds a duration or a name the ranker raises on
RankActivitiesParse ==
    /\ FirstBadDuration(activities) > Len(activities)
    /\ FirstBadName(activities) > Len(activities)

AllActivitiesScored ==
    \A i \in 1..Len(activities) : activities[i].total_score.t = "num"

AllHotelsScored ==
    \A i \in 1..Len(hotels) : hotels[i]._preference_score.t = "num"

\* C12: whatever the preferences hold (None, a missing, null, negative,
\* non-numeric or all-zero entry), no call raises or gives up on them:
\* normalize_weights returns, optimize does not raise on candidates it can
\* parse, and the rankers score every candidate they can parse.
C12_WeightsNeverAnError ==
    /\ (op = "normalize_weights" /\ pc = "done") => ~nwResult.raised
    /\ (OptimizeDone /\ OptimizeCandidatesParse) => ~optResult.raised
    /\ (RankActivitiesDone /\ RankActivitiesParse) =>
          ~rankResult.caught /\ AllActivitiesScored
    /\ (RankHotelsDone /\ ~Falsy(preferences)) =>
          ~rankResult.caught /\ AllHotelsScored

\* regular activities first, each group by total_score descending
ReturnedSorted ==
    \A i, j \in 1..Len(rankResult.returned) :
      i < j =>
        /\ ~(/\ IsFlaggedLongTour(rankResult.returned[i])
             /\ ~IsFlaggedLongTour(rankResult.returned[j]))
        /\ (IsFlaggedLongTour(rankResult.returned[i])
              = IsFlaggedLongTour(rankResult.returned[j]))
           => RLe(Get(rankResult.returned[j].total_score, Num(0, 1)).v,
                  Get(rankResult.returned[i].total_score, Num(0, 1)).v)

\* C13: a candidate with a missing or unparsable price, duration, rating or
\* name does not abort the batch: with usable preferences optimize returns
\* instead of raising, and the activity ranker scores every candidate and
\* returns the list sorted.
C13_MalformedFieldRecovered ==
    /\ (OptimizeDone /\ ~OptimizeWeights(preferences).err) => ~optResult.raised
    /\ (RankActivitiesDone /\ ~RankWeights(preferences).err) =>
          ~rankResult.caught /\ AllActivitiesScored /\ ReturnedSorted

-----------------------------------------------------------------------------
(* Properties of the caller's lists across a call.                          *)

\* C14: no call mutates what the caller handed in: across every step the
\* candidate lists hold the same records in the same order with the same
\* fields and values, and the preferences are the same.
C14_InputsNotMutated ==
    [][/\ flights' = flights
       /\ hotels' = hotels
       /\ activities' = activities
       /\ preferences' = preferences]_vars

-----------------------------------------------------------------------------
(* Properties of a sequence of rank calls.                                  *)

RerankDone == op = "rerank_activities" /\ pc = "done"

\* the records as a caller first holds them, before any call has written to them
Fresh(acts) ==
    [i \in 1..Len(acts) |->
       RankActivity(acts[i].id,
                    Activity(acts[i].name, acts[i].price, acts[i].rating,
                             acts[i].minimumDuration, acts[i].duration))]

\* what a returned record reports: which candidate it is, its flags as a
\* consumer reads them (a flag that is not set reads as false) and its scores
Reported(a) ==
    [id |-> a.id,
     long_tour |-> Truthy(Get(a.long_tour, False)),
     too_expensive_for_budget |-> Truthy(Get(a.too_expensive_for_budget, False)),
     low_quality_for_preference |-> Truthy(Get(a.low_quality_for_preference, False)),
     budget_score |-> a.budget_score,
     quality_score |-> a.quality_score,
     convenience_score |-> a.convenience_score,
     total_score |-> a.total_score]

Reports(acts) == [i \in 1..Len(acts) |-> Reported(acts[i])]

\* C15: what a rank call returns is determined by the candidates, preferences
\* and trip length of that call alone: the second of two calls reports the
\* order, flags and scores that the same call reports on records no call has
\* touched, and a second call without preferences reports no
\* too_expensive_for_budget and no low_quality_for_preference flag as true.
C15_CallsIndependent ==
    RerankDone =>
      /\ Reports(rankResult.returned) =
           Reports(apply_preference_filters_to_activities(Fresh(activities), preferences,
                                                          trip_duration_days).returned)
      /\ Falsy(preferences) =>
           \A i \in 1..Len(rankResult.returned) :
              /\ ~Reported(rankResult.returned[i]).too_expensive_for_budget
              /\ ~Reported(rankResult.returned[i]).low_quality_for_preference

-----------------------------------------------------------------------------
(* Properties of the list a rank call returns.                              *)

\* a hotel as a caller first holds it
FreshHotel(h) == RankHotel(h.id, Hotel(h.price_per_night, h.price, h.rating, h.distance))

\* the candidate of the input that a record of the output stands for
SameActivity(out, in) == Fresh(<<out>>) = Fresh(<<in>>)

SameHotel(out, in) == FreshHotel(out) = FreshHotel(in)

\* returned holds each record of input (input[k].id = k) exactly once and
\* nothing else
EachOnce(returned, input) ==
    /\ Len(returned) = Len(input)
    /\ \A k \in 1..Len(input) :
         Cardinality({i \in 1..Len(returned) : returned[i].id = k}) = 1

\* C16: the list a rank call returns is a permutation of the list it was
\* given: it has the same length and holds each candidate exactly once,
\* whatever flags the call set and also when scoring stopped part-way.
C16_ReturnsPermutation ==
    [][/\ (op = "rank_activities" /\ pc = "call" /\ pc' = "done") =>
            /\ EachOnce(rankResult'.returned, activities)
            /\ \A i \in 1..Len(rankResult'.returned) :
                 SameActivity(rankResult'.returned[i],
                              activities[rankResult'.returned[i].id])
       /\ (op = "rank_hotels" /\ pc = "call" /\ pc' = "done") =>
            /\ EachOnce(rankResult'.returned, hotels)
            /\ \A i \in 1..Len(rankResult'.returned) :
                 SameHotel(rankResult'.returned[i], hotels[rankResult'.returned[i].id])]_vars

\* C16 witness: the activity ranker returned a list in another order than the
\* input, with a long tour and a too_expensive_for_budget flag set in it
C16_Witness ==
    /\ RankActivitiesDone
    /\ Reordered
    /\ Len(rankResult.returned) >= 3
    /\ \E i \in 1..Len(rankResult.returned) : IsFlaggedLongTour(rankResult.returned[i])
    /\ \E i \in 1..Len(rankResult.returned) :
         Truthy(Get(rankResult.returned[i].too_expensive_for_budget, False))

\* the activity ranker returned after scoring stopped part-way: a candidate
\* with scores is followed by one without
PartlyScored ==
    /\ RankActivitiesDone
    /\ rankResult.caught
    /\ \E i, j \in 1..Len(rankResult.returned) :
         /\ rankResult.returned[i].total_score.t = "num"
         /\ rankResult.returned[j].total_score.t = "absent"

-----------------------------------------------------------------------------
(* Properties of normalize_weights as a function.                           *)

NormalizeWeightsDone == op = "normalize_weights" /\ pc = "done"

\* every entry of the argument is a number or is missing
NumericOrMissing(w) ==
    \A e \in {w.budget, w.quality, w.convenience} : e.t \in {"num", "absent"}

\* an entry as the reference counts it: a missing or negative one as 0
Counted(e) == IF e.t = "absent" \/ RLt(e.v, Zero) THEN Zero ELSE e.v

CountedSum(w) == RAdd(RAdd(Counted(w.budget), Counted(w.quality)), Counted(w.convenience))

ThirtyThree == Rat(33, 100)

ThirtyFour == Rat(34, 100)

\* C17: normalize_weights computes the reference function. An entry that is
\* negative or missing counts as 0; if the argument is absent (None or empty)
\* or the counted entries sum to 0 or less, the result is exactly (0.33, 0.33,
\* 0.34); otherwise each counted entry is divided by the sum of the counted
\* entries.
C17_ReferenceFunction ==
    (NormalizeWeightsDone /\ (weights.t = "none" \/ NumericOrMissing(weights))) =>
      /\ ~nwResult.raised
      /\ IF Falsy(weights) \/ RLe(CountedSum(weights), Zero)
         THEN /\ nwResult.budget = ThirtyThree
              /\ nwResult.quality = ThirtyThree
              /\ nwResult.convenience = ThirtyFour
         ELSE /\ RMul(nwResult.budget, CountedSum(weights)) = Counted(weights.budget)
              /\ RMul(nwResult.quality, CountedSum(weights)) = Counted(weights.quality)
              /\ RMul(nwResult.convenience, CountedSum(weights)) =
                   Counted(weights.convenience)

\* C17 witness: a call on a dict with a negative entry, a missing entry and a
\* positive entry has returned
C17_Witness ==
    /\ NormalizeWeightsDone
    /\ weights.t = "dict"
    /\ weights.budget.t = "num" /\ RLt(weights.budget.v, Zero)
    /\ weights.quality.t = "absent"
    /\ weights.convenience.t = "num" /\ RLt(Zero, weights.convenience.v)
    /\ nwResult.convenience = One

\* C18: normalize_weights is idempotent. Whenever a call returns, a call on
\* the dict it returned returns that same dict, also when the first call
\* returned the default distribution. (Floats are read as exact numbers: the
\* comparison is of values, not of bit patterns.)
C18_Idempotent ==
    (op = "normalize_weights" /\ pc = "again") =>
      /\ ~nwResult.raised
      /\ AsWeights(nwResult) = weights

\* C18 witness: the second call has returned, on a first result that is not
\* the default distribution
C18_Witness ==
    /\ op = "normalize_weights"
    /\ pc = "again"
    /\ weights # AsWeights(Returned(DEFAULT_WEIGHTS))
    /\ RLt(Zero, weights.budget.v)
    /\ RLt(weights.budget.v, weights.quality.v)

\* the second call has returned, on a first result that is the default
RenormalizedDefault ==
    /\ op = "normalize_weights"
    /\ pc = "again"
    /\ weights = AsWeights(Returned(DEFAULT_WEIGHTS))

-----------------------------------------------------------------------------
(* Properties of the applied weights.                                       *)

OnlyBudget == [budget |-> One, quality |-> Zero, convenience |-> Zero]

FlightPrice(i) == FlightMetrics(flights)[i].price.v

DistinctFlightPrices ==
    \A i, j \in 1..Len(flights) : i # j => FlightPrice(i) # FlightPrice(j)

\* C19: when the preferences normalize to (1, 0, 0), the flights have distinct
\* prices and the budget admits every triple, optimize succeeds and the flight
\* of its result is the flight of minimum price.
C19_CheapestFlightWins ==
    (/\ OptimizeDone
     /\ flights # <<>>
     /\ OptimizeCandidatesParse
     /\ normalize_weights(preferences) = Returned(OnlyBudget)
     /\ DistinctFlightPrices
     /\ FittingTriples = Triples) =>
        /\ optResult.ok
        /\ \A i \in 1..Len(flights) : RLe(FlightPrice(optResult.flight), FlightPrice(i))

\* the weight vector normalize_weights returns for the preferences, as the
\* scorers take their weights
Normalized(p) ==
    [err |-> normalize_weights(p).raised, budget |-> normalize_weights(p).budget,
     quality |-> normalize_weights(p).quality,
     convenience |-> normalize_weights(p).convenience]

\* w is a distribution: each weight at least 0, and the three sum to 1
IsDistribution(w) ==
    /\ RLe(Zero, w.budget)
    /\ RLe(Zero, w.quality)
    /\ RLe(Zero, w.convenience)
    /\ RAdd(RAdd(w.budget, w.quality), w.convenience) = One

\* C20: the weights optimize and rank apply to the axis scores are the weights
\* normalize_weights returns for the preferences supplied (a negative or
\* missing entry counting as 0): they are each at least 0 and sum to 1, the
\* category score of the chosen flight is its axis scores weighted by them,
\* and so is the total score of every returned activity.
C20_AppliedWeightsNormalized ==
    /\ (OptimizeDone /\ optResult.ok /\ NumericOrMissing(preferences)) =>
         /\ OptimizeWeights(preferences) = Normalized(preferences)
         /\ IsDistribution(OptimizeWeights(preferences))
         /\ optResult.scores[1].total =
               CategoryScore(Normalized(preferences), optResult.scores[1].budget,
                             optResult.scores[1].quality, optResult.scores[1].convenience)
    /\ (RankActivitiesDone /\ ~rankResult.caught /\ activities # <<>>
           /\ NumericOrMissing(preferences)) =>
         /\ RankWeights(preferences) = Normalized(preferences)
         /\ IsDistribution(RankWeights(preferences))
         /\ \A i \in 1..Len(rankResult.returned) :
               rankResult.returned[i].total_score.v =
                  ActivityScores(rankResult.returned[i], rankResult.list, preferences,
                                 Normalized(preferences)).total_score

-----------------------------------------------------------------------------
(* Properties of the flags of the activity ranker.                          *)

\* the activity ranker ran to its end on some activities
RankedToEnd == RankActivitiesDone /\ ~rankResult.caught /\ activities # <<>>

SixTenths == Rat(6, 10)

\* the mean of the prices of the candidate set that could be read
MeanPrice == RDiv(SeqSum(CollectedPrices(activities)), Whole(Len(CollectedPrices(activities))))

\* the candidate's price exceeds 1.6 times the mean price of the candidate set
PriceFarAboveMean(a) ==
    /\ ~RankPrice(a).err
    /\ CollectedPrices(activities) # <<>>
    /\ RLt(RMul(MeanPrice, Rat(16, 10)), RankPrice(a).v)

\* C21: too_expensive_for_budget is true for a candidate exactly when the
\* normalized budget weight is at least 0.6 and the candidate's price exceeds
\* 1.6 times the mean price of the candidate set; with a normalized budget
\* weight below 0.6 no candidate is flagged.
C21_TooExpensiveFlag ==
    RankedToEnd =>
      \A i \in 1..Len(rankResult.returned) :
         Reported(rankResult.returned[i]).too_expensive_for_budget
            <=> /\ RLe(SixTenths, RankWeights(preferences).budget)
                /\ PriceFarAboveMean(rankResult.returned[i])

\* the candidate's rating is below 3.5
LowRating(a) == ~SafeFloat(a.rating).err /\ RLt(SafeFloat(a.rating).v, Rat(35, 10))

\* C22: low_quality_for_preference is true for a candidate exactly when the
\* normalized quality weight is at least 0.6 and the candidate's rating is
\* below 3.5; with a normalized quality weight below 0.6 no candidate is
\* flagged.
C22_LowQualityFlag ==
    RankedToEnd =>
      \A i \in 1..Len(rankResult.returned) :
         Reported(rankResult.returned[i]).low_quality_for_preference
            <=> /\ RLe(SixTenths, RankWeights(preferences).quality)
                /\ LowRating(rankResult.returned[i])

\* the candidate's duration, converted to days, is strictly greater than the
\* trip duration supplied
LongerThanTrip(a) ==
    /\ trip_duration_days.t = "num"
    /\ DurationHours(a).st = "ok"
    /\ RLt(trip_duration_days.v, RDiv(DurationHours(a).v, Whole(24)))

\* C23: long_tour is true for a candidate exactly when a trip duration in days
\* was supplied and the candidate's duration in days (hours / 24) is strictly
\* greater than it; a candidate without a duration, and every candidate when
\* no trip duration was supplied, has long_tour false.
C23_LongTourFlag ==
    RankActivitiesDone =>
      \A i \in 1..Len(rankResult.returned) :
         Reported(rankResult.returned[i]).long_tour <=> LongerThanTrip(rankResult.returned[i])

-----------------------------------------------------------------------------
(* Properties of the per-category normalization.                            *)

FlightPrices == [i \in 1..Len(flights) |-> FlightPrice(i)]

\* no axis of the activity ranker is amplified: every normalized weight is
\* below 0.6
NoTierActive ==
    /\ ~RankWeights(preferences).err
    /\ RLt(RankWeights(preferences).budget, SixTenths)
    /\ RLt(RankWeights(preferences).quality, SixTenths)
    /\ RLt(RankWeights(preferences).convenience, SixTenths)

Percent(n) == [t |-> "num", v |-> Whole(n)]

\* C24: in a per-category normalization, when the values of a lower-is-better
\* metric differ across the candidate set, the candidate of minimum value
\* gets the top score of the scale and the candidate of maximum value gets 0
\* (100 x (max - value) / (max - min)): for the price of the flight optimize
\* chose, and for the price of every activity ranked with no axis amplified.
C24_MinMaxScaling ==
    /\ (/\ OptimizeDone
        /\ optResult.ok
        /\ SeqMin(FlightPrices) # SeqMax(FlightPrices)) =>
          /\ FlightPrice(optResult.flight) = SeqMin(FlightPrices) =>
                optResult.scores[1].budget = One
          /\ FlightPrice(optResult.flight) = SeqMax(FlightPrices) =>
                optResult.scores[1].budget = Zero
    /\ (/\ RankedToEnd
        /\ NoTierActive
        /\ CollectedPrices(activities) # <<>>
        /\ SeqMin(CollectedPrices(activities)) # SeqMax(CollectedPrices(activities))) =>
          \A i \in 1..Len(activities) :
             (~RankPrice(activities[i]).err /\ RLe(Zero, RankPrice(activities[i]).v)) =>
               /\ RankPrice(activities[i]).v = SeqMin(CollectedPrices(activities)) =>
                     activities[i].budget_score = Percent(100)
               /\ RankPrice(activities[i]).v = SeqMax(CollectedPrices(activities)) =>
                     activities[i].budget_score = Percent(0)

-----------------------------------------------------------------------------
(* Properties of calculate_total_score.                                     *)

Scored == op = "scoring" /\ pc = "scored"

\* every entry of the scores argument is a number or is missing
NumericScores(s) ==
    \A e \in {s.budget, s.quality, s.convenience} : e.t \in {"num", "absent"}

\* an axis score as the reference counts it: a missing one as 0, any other
\* clamped into [0, 100]
Clamped(e) ==
    IF e.t = "absent" \/ RLt(e.v, Zero) THEN Zero
    ELSE IF RLt(Whole(100), e.v) THEN Whole(100)
    ELSE e.v

\* the weights of the reference for an argument w
ReferenceWeights(w) ==
    IF Falsy(w) \/ RLe(CountedSum(w), Zero)
    THEN [budget |-> ThirtyThree, quality |-> ThirtyThree, convenience |-> ThirtyFour]
    ELSE [budget |-> RDiv(Counted(w.budget), CountedSum(w)),
          quality |-> RDiv(Counted(w.quality), CountedSum(w)),
          convenience |-> RDiv(Counted(w.convenience), CountedSum(w))]

WeightedSum(s, w) ==
    RAdd(RAdd(RMul(ReferenceWeights(w).budget, Clamped(s.budget)),
              RMul(ReferenceWeights(w).quality, Clamped(s.quality))),
         RMul(ReferenceWeights(w).convenience, Clamped(s.convenience)))

\* the arguments of the last calculate_total_score call are in the domain of
\* the reference
ScoredInDomain ==
    /\ Scored
    /\ weights.t = "none" \/ NumericOrMissing(weights)
    /\ NumericScores(scores)

\* C25 as stated: calculate_total_score returns the weighted sum of the
\* clamped axis scores under the normalized weights, a value in [0, 100] that
\* depends on its two arguments only.
C25_WeightedSumExact ==
    ScoredInDomain =>
      /\ ~totalScore.raised
      /\ totalScore.v = WeightedSum(scores, weights)
      /\ RLe(Zero, totalScore.v) /\ RLe(totalScore.v, Whole(100))

\* C25 amended: calculate_total_score returns that weighted sum rounded to two
\* decimal places, a value in [0, 100] that depends on its two arguments
\* only, whatever calls and writes came before it.
C25_WeightedSumRounded ==
    ScoredInDomain =>
      /\ ~totalScore.raised
      /\ totalScore.v = Round(WeightedSum(scores, weights), 2)
      /\ RLe(Zero, totalScore.v) /\ RLe(totalScore.v, Whole(100))

\* C25 witness: the second call of a sequence scored a dict with an entry
\* above 100 and an entry below 0 under weights with a negative and a missing
\* entry
C25_Witness ==
    /\ ScoredInDomain
    /\ calls = 2
    /\ scores = ScoresDict(Num(-10, 1), Num(50, 1), Num(150, 1))
    /\ weights = WeightsDict(Num(-1, 1), Num(2, 1), Absent)
    /\ totalScore.v = Whole(50)

\* a call whose weighted sum has more than two decimal places
RoundedAway ==
    /\ ScoredInDomain
    /\ totalScore.v # WeightedSum(scores, weights)

-----------------------------------------------------------------------------
(* Properties of DEFAULT_WEIGHTS.                                           *)

\* normalize_weights takes one of its two fallback returns for w
FallsBack(w) ==
    \/ Falsy(w)
    \/ NumericOrMissing(w) /\ RLe(CountedSum(w), Zero)

\* the last call was normalize_weights, it fell back, and the caller has
\* not written to the returned dict since
FallbackReturned ==
    /\ op = "scoring"
    /\ pc = "normalized"
    /\ FallsBack(weights)

\* C28: whatever sequence of normalize_weights and calculate_total_score
\* calls and of caller writes to the returned dicts has run, DEFAULT_WEIGHTS
\* holds 0.33 / 0.33 / 0.34 and a fallback return carries those values.
C28_DefaultWeightsUnchanged ==
    op = "scoring" =>
      /\ default_weights.budget = ThirtyThree
      /\ default_weights.quality = ThirtyThree
      /\ default_weights.convenience = ThirtyFour
      /\ FallbackReturned =>
           /\ ~nwResult.raised
           /\ nwResult.budget = ThirtyThree
           /\ nwResult.quality = ThirtyThree
           /\ nwResult.convenience = ThirtyFour

\* C28 witness: a caller has overwritten an entry of a dict that
\* normalize_weights returned from its fallback
C28_Witness ==
    /\ op = "scoring"
    /\ pc = "modified"
    /\ FallsBack(weights)
    /\ nwResult.budget = One
    /\ default_weights = DEFAULT_WEIGHTS

-----------------------------------------------------------------------------
(* Properties of the insight text of optimize.                              *)

\* the weight of an axis is strictly greater than the two others
StrictlyGreatest(x, y, z) == RLt(y, x) /\ RLt(z, x)

\* the insight text names the phrase
Names(phrase) == \E i \in 1..Len(optResult.insights) : optResult.insights[i] = phrase

\* the number of axes the insight text names
AxesNamed ==
    Cardinality({phrase \in {"excellent value", "high quality options", "minimal travel time"} :
                   Names(phrase)})

\* C26: the insight of a successful optimize names an axis exactly when the
\* normalized weight of that axis is strictly greater than the two others,
\* never names two axes, and speaks of a balanced combination exactly when no
\* weight is strictly greatest.
C26_InsightNamesGreatestAxis ==
    (OptimizeDone /\ optResult.ok) =>
      LET w == OptimizeWeights(preferences)
      IN  /\ Names("excellent value") <=> StrictlyGreatest(w.budget, w.quality, w.convenience)
          /\ Names("high quality options") <=> StrictlyGreatest(w.quality, w.budget, w.convenience)
          /\ Names("minimal travel time") <=> StrictlyGreatest(w.convenience, w.budget, w.quality)
          /\ AxesNamed <= 1
          /\ Names("balanced combination") <=>
               /\ ~StrictlyGreatest(w.budget, w.quality, w.convenience)
               /\ ~StrictlyGreatest(w.quality, w.budget, w.convenience)
               /\ ~StrictlyGreatest(w.convenience, w.budget, w.quality)

-----------------------------------------------------------------------------
(* Properties of the amplifier of the activity ranker.                      *)

\* the linear score of the budget axis on the 0..100 scale: min-max over the
\* prices collected from the request, 50 without a price or a price range
LinearBudget(a) ==
    LET prices == CollectedPrices(activities)
    IN  IF RankPrice(a).err \/ prices = <<>> THEN Whole(50)
        ELSE IF SeqMin(prices) = SeqMax(prices) THEN Whole(50)
        ELSE RMul(Whole(100),
                  Clamp01(RDiv(RSub(SeqMax(prices), RankPrice(a).v),
                               RSub(SeqMax(prices), SeqMin(prices)))))

\* the linear score of the quality axis: rating / 5 within the 0..5 scale,
\* the default rating 3.5 for a candidate without one
LinearQuality(a) ==
    LET rating == IF SafeFloat(a.rating).err THEN Rat(35, 10) ELSE SafeFloat(a.rating).v
    IN  RMul(Whole(100), Clamp01(RDiv(rating, Whole(5))))

\* the linear score of the convenience axis: min-max over the durations
\* collected from the request, 2 hours for a candidate without a duration
LinearConvenience(a) ==
    LET durations == CollectedDurations(activities)
        hours == IF DurationHours(a).st = "ok" THEN DurationHours(a).v ELSE Whole(2)
    IN  IF durations = <<>> THEN Whole(50)
        ELSE IF SeqMin(durations) = SeqMax(durations) THEN Whole(50)
        ELSE RMul(Whole(100),
                  Clamp01(RDiv(RSub(SeqMax(durations), hours),
                               RSub(SeqMax(durations), SeqMin(durations)))))

\* the ranker returned and stored the scores of the i-th activity
ScoreStored(i) ==
    /\ RankActivitiesDone
    /\ ~RankWeights(preferences).err
    /\ activities[i].budget_score.t = "num"

-----------------------------------------------------------------------------
(* Properties of the search of optimize.                                    *)

\* the category scores of the candidates of a category, in input order; of
\* the placeholder when the category is empty
FlightCategoryScores ==
    LET nf == Normalize(FlightMetrics(flights), OptimizeWeights(preferences))
    IN  [i \in 1..Len(nf) |-> nf[i].category_score]

HotelCategoryScores ==
    LET nh == Normalize(HotelMetrics(hotels), OptimizeWeights(preferences))
    IN  IF Len(nh) = 0 THEN <<DummyHotel.category_score>>
        ELSE [i \in 1..Len(nh) |-> nh[i].category_score]

ActivityCategoryScores ==
    LET na == Normalize(ActivityMetrics(activities), OptimizeWeights(preferences))
    IN  IF Len(na) = 0 THEN <<DummyActivity.category_score>>
        ELSE [i \in 1..Len(na) |-> na[i].category_score]

\* position i is the first one of s that holds the maximum of s
FirstMaximum(s, i) ==
    /\ i \in 1..Len(s)
    /\ \A j \in 1..Len(s) : RLe(s[j], s[i])
    /\ \A j \in 1..(i - 1) : RLt(s[j], s[i])

\* optimize returned a combination and the budget filter let every triple pass
AllTriplesAdmitted ==
    /\ OptimizeDone
    /\ optResult.ok
    /\ Len(optResult.considered) =
         Len(FlightCategoryScores) * Len(HotelCategoryScores) * Len(ActivityCategoryScores)

\* C29: when the budget admits every triple, the flight, the hotel and the
\* activity of the returned combination are each the first candidate in
\* input order that attains the maximum category score of its category.
C29_DecomposesPerCategory ==
    AllTriplesAdmitted =>
      /\ FirstMaximum(FlightCategoryScores, optResult.flight)
      /\ FirstMaximum(HotelCategoryScores, optResult.hotel)
      /\ FirstMaximum(ActivityCategoryScores, optResult.activity)

\* C29 witness: every triple was admitted, two flights tie for the maximum
\* flight score, and the best hotel is not the first one
C29_Witness ==
    /\ AllTriplesAdmitted
    /\ Len(flights) >= 2 /\ Len(hotels) >= 2
    /\ \E j \in 1..Len(flights) :
          j # optResult.flight
          /\ FlightCategoryScores[j] = FlightCategoryScores[optResult.flight]
    /\ optResult.hotel > 1

-----------------------------------------------------------------------------
(* Properties of format_flight_for_dashboard.                               *)

FormatDone == op = "format_flights" /\ pc = "done"

\* the preferenceScore of the flights of a list never rises along the list
NonIncreasingPreferenceScore(list) ==
    \A i \in 1..Len(list), j \in 1..Len(list) :
       i < j => RLe(Get(list[j].preferenceScore, Num(0, 1)).v,
                    Get(list[i].preferenceScore, Num(0, 1)).v)

\* C30: when format_flight_for_dashboard is given user preferences, the
\* outboundFlights and the returnFlights it returns are each in order of
\* non-increasing preferenceScore.
C30_OrderedByPreferenceScore ==
    (FormatDone /\ ~Falsy(preferences) /\ ~formatted_response.raised) =>
      /\ NonIncreasingPreferenceScore(formatted_response.outboundFlights)
      /\ NonIncreasingPreferenceScore(formatted_response.returnFlights)

====
